---- MODULE Spec2Model ----
(***************************************************************************)
(* Model of the Sarah AI agent's ConversationManager                       *)
(* (src/plugins/ai_agent/conversation_manager.py): the session lifecycle,  *)
(* the bounded turn log, the timeout cleanup, the JSON save/load of the    *)
(* conversation history, the contextual responses and the summary; and of  *)
(* its SarahAICore (src/plugins/ai_agent/ai_core.py): the cleaning of the  *)
(* utterance, the plugin matching by embeddings or by keywords, the        *)
(* suggestions and the formatted answer; and of the AIAgentPlugin          *)
(* (src/plugins/ai_agent/ai_agent.py) that uses both: the command it       *)
(* builds from an Intent, its reading of the command's outcome and the     *)
(* turn it records.                                                        *)
(*                                                                         *)
(* Time is counted in clock ticks.  datetime.now() reads the clock at tick *)
(* resolution, time.time() truncated by int() reads it at second           *)
(* resolution (TicksPerSecond ticks), and timedelta(minutes=m) is          *)
(* m * TicksPerMinute ticks.                                               *)
(***************************************************************************)
EXTENDS Integers, Sequences, FiniteSets, TLC

\* ------------------------------------------------------------------ bounds
MaxClock == 3            \* the clock runs from 0 to MaxClock ticks
TicksPerSecond == 2      \* resolution of datetime.now() within one second
MaxContextTurns == 2     \* max_context_turns is configured in 0..MaxContextTurns
MaxAdded == 3            \* add_turn calls made on one session
MaxCalls == 3            \* calls made on the manager in one run

TicksPerMinute == 2      \* ticks in one minute of session_timeout (time scale of the model)
MaxLimit == 3            \* get_suggestions is called with max_suggestions in 0..MaxLimit
SimilaritySteps == 2     \* cosine similarities are multiples of 1/SimilaritySteps
MaxSummaryTurns == 6     \* add_turn calls made before get_conversation_summary is looked at
MaxResponseTurns == 2    \* add_turn calls made before get_contextual_response is looked at
MaxUtterances == 2       \* utterances answered in the demo loop
MaxCommands == 1         \* commands the agent runs and records as turns

\* The values session_timeout_minutes is configured with.
ConfiguredTimeoutMinutes == {0, 1}

VARIABLES
    max_context_turns,     \* ConversationManager.max_context_turns
    session_timeout,       \* ConversationManager.session_timeout, in ticks
    current_context,       \* <<>> for None, <<ctx>> for a ConversationContext
    conversation_history,  \* the dict session_id -> context, in insertion order
    current_in_history,    \* current_context is the object stored in the history
    clock,                 \* the wall clock
    file,                  \* the file at filepath
    fresh_history,         \* conversation_history of a fresh manager that loaded the file
    added_turns,           \* log: the turns added to the current context since it was created
    saved,                 \* log: <<history>> while the file is what the last successful save wrote
    last_call,             \* log: the call that produced this state
    calls,                 \* log: the number of calls made so far that can change the manager
    returned,              \* log: <<r>> when the call that produced this state returned a text or a summary
    nlp,                   \* SarahAICore.nlp is loaded (not None)
    sentence_model,        \* SarahAICore.sentence_model is loaded (not None)
    utterance,             \* the text the user typed
    similarity,            \* cosine similarity of the cleaned utterance and each of plugin_embeddings
    core_call,             \* log: the last call made on the SarahAICore
    agent_call,            \* log: the last step the AIAgentPlugin made
    agent                  \* AIAgentPlugin: ai_core and conversation_manager are set, initialized

vars == <<max_context_turns, session_timeout, current_context, conversation_history,
          current_in_history, clock, file, fresh_history, added_turns, saved, last_call, calls,
          returned, nlp, sentence_model, utterance, similarity, core_call, agent_call,
          agent>>

\* The state of the ConversationManager and its logs.
manager_vars == <<max_context_turns, session_timeout, current_context, conversation_history,
                  current_in_history, clock, file, fresh_history, added_turns, saved, last_call,
                  calls, returned>>

\* The state of the SarahAICore and of the agent, which no call of the
\* ConversationManager touches.
core_vars == <<nlp, sentence_model, utterance, similarity, core_call, agent_call, agent>>

\* ------------------------------------------------------------ Python values
NoneStr == "None"                      \* None in an Optional[str] field
EmptyDict == [k \in {} |-> 0]          \* {}
PyObject == "<object>"                 \* a value json cannot serialize

\* A dict whose iteration order matters is a sequence of [key, value] items.
dict_keys(d) == {d[i].key : i \in DOMAIN d}

dict_get(d, k) == d[CHOOSE i \in DOMAIN d : d[i].key = k].value

dict_set(d, k, v) ==
    IF k \in dict_keys(d)
    THEN [i \in DOMAIN d |-> IF d[i].key = k THEN [key |-> k, value |-> v] ELSE d[i]]
    ELSE Append(d, [key |-> k, value |-> v])

Min(a, b) == IF a <= b THEN a ELSE b

\* seq[-n:] of Python, for n >= 0: -0 is 0, so seq[-0:] is the whole list.
last_slice(seq, n) ==
    IF n = 0 \/ n >= Len(seq) THEN seq ELSE SubSeq(seq, Len(seq) - n + 1, Len(seq))

RECURSIVE join(_)
\* ' '.join(words)
join(words) ==
    IF words = <<>> THEN ""
    ELSE IF Len(words) = 1 THEN words[1]
    ELSE words[1] \o " " \o join(Tail(words))

\* ------------------------------------------------------------------ inputs
\* Session ids: f"session_{n}" is [auto |-> TRUE, n |-> n], any other string
\* given by the caller is [auto |-> FALSE, n |-> k].
auto_session_id(now) == [auto |-> TRUE, n |-> now \div TicksPerSecond]

GivenSessionIds == {[auto |-> FALSE, n |-> 1]}

\* The arguments of one add_turn call.
turn_input(plugin, entities) ==
    [user_input |-> "u", intent_plugin |-> plugin, intent_confidence |-> 90,
     entities |-> entities, sarah_response |-> "r", execution_successful |-> TRUE]

TurnInputs ==
    { turn_input("weather", EmptyDict),
      turn_input("wiki", [search_terms |-> <<"cats">>]),
      turn_input("hi", [gpe |-> "Paris", raw |-> PyObject]) }

\* ------------------------------------------------------------- dataclasses
ConversationTurn(timestamp, in) ==
    [timestamp |-> timestamp, user_input |-> in.user_input,
     intent_plugin |-> in.intent_plugin, intent_confidence |-> in.intent_confidence,
     entities |-> in.entities, sarah_response |-> in.sarah_response,
     execution_successful |-> in.execution_successful]

ConversationContext(session_id, now) ==
    [session_id |-> session_id, started_at |-> now, last_interaction |-> now,
     turns |-> <<>>, active_topic |-> NoneStr, user_preferences |-> EmptyDict,
     location_context |-> NoneStr]

\* ------------------------------------------------------ in-memory operations
\* Mutant of _cleanup_old_sessions: the comparison with the cutoff reversed.
cleanup_reversed_comparison(history, now, timeout) ==
    LET cutoff_time == now - timeout
    IN  SelectSeq(history, LAMBDA item : ~(item.value.last_interaction > cutoff_time))

\* _cleanup_old_sessions: the history without the sessions whose
\* last_interaction is before the cutoff.
_cleanup_old_sessions(history, now, timeout) ==
    LET cutoff_time == now - timeout
    IN  SelectSeq(history, LAMBDA item : ~(item.value.last_interaction < cutoff_time))

\* start_conversation up to its return: the new context becomes current, is
\* stored under its id and the cleanup runs with a later reading of the clock.
start_conversation_result(history, session_id, now, cleanup_now, timeout) ==
    LET context == ConversationContext(session_id, now)
        stored == dict_set(history, session_id, context)
        cleaned == _cleanup_old_sessions(stored, cleanup_now, timeout)
    IN  [current_context |-> <<context>>,
         conversation_history |-> cleaned,
         current_in_history |-> session_id \in dict_keys(cleaned)]

\* Mutant of _update_active_topic: every search term goes into the topic.
update_active_topic_all_terms(context, intent_plugin, entities) ==
    IF "search_terms" \in DOMAIN entities /\ entities.search_terms # <<>>
    THEN [context EXCEPT !.active_topic = join(entities.search_terms)]
    ELSE IF intent_plugin \in {"weather", "time", "speedtest"}
    THEN [context EXCEPT !.active_topic = intent_plugin]
    ELSE context

_update_active_topic(context, intent_plugin, entities) ==
    IF "search_terms" \in DOMAIN entities /\ entities.search_terms # <<>>
    THEN [context EXCEPT !.active_topic =
              join(SubSeq(entities.search_terms, 1, Min(3, Len(entities.search_terms))))]
    ELSE IF intent_plugin \in {"weather", "time", "speedtest"}
    THEN [context EXCEPT !.active_topic = intent_plugin]
    ELSE context

\* entities.get('gpe') or entities.get('loc')
entity_location(entities) ==
    IF "gpe" \in DOMAIN entities /\ entities.gpe # ""
    THEN entities.gpe
    ELSE IF "loc" \in DOMAIN entities THEN entities.loc ELSE NoneStr

\* Mutant of _update_user_preferences: the counter of a plugin is the number
\* of its turns that are still in the context.
update_user_preferences_retained(context, entities, intent_plugin) ==
    LET prefs == context.user_preferences
        plugin_prefs == IF "preferred_plugins" \in DOMAIN prefs
                        THEN prefs.preferred_plugins ELSE EmptyDict
        retained(p) == Cardinality({i \in DOMAIN context.turns : context.turns[i].intent_plugin = p})
        counted == [p \in DOMAIN plugin_prefs \cup {intent_plugin} |-> retained(p)]
        with_plugins == [k \in DOMAIN prefs \cup {"preferred_plugins"} |->
                            IF k = "preferred_plugins" THEN counted ELSE prefs[k]]
    IN  IF "gpe" \in DOMAIN entities \/ "loc" \in DOMAIN entities
        THEN [context EXCEPT
                 !.location_context = entity_location(entities),
                 !.user_preferences =
                     [k \in DOMAIN with_plugins \cup {"preferred_location"} |->
                         IF k = "preferred_location" THEN entity_location(entities)
                         ELSE with_plugins[k]]]
        ELSE [context EXCEPT !.user_preferences = with_plugins]

_update_user_preferences(context, entities, intent_plugin) ==
    LET prefs == context.user_preferences
        plugin_prefs == IF "preferred_plugins" \in DOMAIN prefs
                        THEN prefs.preferred_plugins ELSE EmptyDict
        count == IF intent_plugin \in DOMAIN plugin_prefs THEN plugin_prefs[intent_plugin] ELSE 0
        counted == [p \in DOMAIN plugin_prefs \cup {intent_plugin} |->
                       IF p = intent_plugin THEN count + 1 ELSE plugin_prefs[p]]
        with_plugins == [k \in DOMAIN prefs \cup {"preferred_plugins"} |->
                            IF k = "preferred_plugins" THEN counted ELSE prefs[k]]
    IN  IF "gpe" \in DOMAIN entities \/ "loc" \in DOMAIN entities
        THEN [context EXCEPT
                 !.location_context = entity_location(entities),
                 !.user_preferences =
                     [k \in DOMAIN with_plugins \cup {"preferred_location"} |->
                         IF k = "preferred_location" THEN entity_location(entities)
                         ELSE with_plugins[k]]]
        ELSE [context EXCEPT !.user_preferences = with_plugins]

\* The turns kept after an append: the last max_turns of them once the list
\* is longer than max_turns.
trim_turns(turns, max_turns) ==
    IF Len(turns) > max_turns THEN last_slice(turns, max_turns) ELSE turns

\* Mutant of add_turn_context: last_interaction is not updated.
add_turn_stale_interaction(context, turn, max_turns) ==
    LET appended == [context EXCEPT !.turns = Append(@, turn)]
        topic == _update_active_topic(appended, turn.intent_plugin, turn.entities)
        trimmed == [topic EXCEPT !.turns = trim_turns(@, max_turns)]
    IN  _update_user_preferences(trimmed, turn.entities, turn.intent_plugin)

\* add_turn on the current context, from the construction of the turn on.
add_turn_context(context, turn, max_turns) ==
    LET appended == [context EXCEPT !.turns = Append(@, turn),
                                    !.last_interaction = turn.timestamp]
        topic == _update_active_topic(appended, turn.intent_plugin, turn.entities)
        trimmed == [topic EXCEPT !.turns = trim_turns(@, max_turns)]
    IN  _update_user_preferences(trimmed, turn.entities, turn.intent_plugin)

\* The sessions of the history whose last_interaction is older than the
\* timeout at the time `now`.
expired_sessions(history, now, timeout) ==
    {history[i].key : i \in {j \in DOMAIN history : now - history[j].value.last_interaction > timeout}}

\* The log entry of a call: its name, whether it ran to its last line, whether
\* start_conversation ran in it, whether the caller gave the session id, and
\* the sessions that were expired at its entry.
Call(op, ok, started, given, expired) ==
    [op |-> op, ok |-> ok, started |-> started, given |-> given, expired |-> expired]

\* The texts _get_greeting_response chooses from with random.choice.
greeting_responses ==
    {"Hello! I'm Sarah, your AI assistant. How can I help you today?",
     "Hi there! What can I do for you?",
     "Hey! Ready to help you with anything you need.",
     "Good to see you! What would you like me to help with?"}

\* start_conversation(session_id), with `given` <<id>> for an id of the caller
\* and <<>> for None.  The clock is read three times: by time.time() for the
\* generated id (line 89, only without an id), by datetime.now() for
\* started_at (line 91) and by datetime.now() in _cleanup_old_sessions; it
\* may advance by id_elapsed between the first two readings and by elapsed
\* between the last two.  The call returns one of the greetings.
start_conversation(given, id_elapsed, elapsed, greeting) ==
    LET session_id == IF given = <<>> THEN auto_session_id(clock) ELSE given[1]
        now == clock + id_elapsed
        cleanup_now == now + elapsed
        r == start_conversation_result(conversation_history, session_id, now, cleanup_now,
                                       session_timeout)
    IN  /\ calls < MaxCalls
        /\ cleanup_now <= MaxClock
        /\ given # <<>> => id_elapsed = 0
        /\ current_context' = r.current_context
        /\ conversation_history' = r.conversation_history
        /\ current_in_history' = r.current_in_history
        /\ clock' = cleanup_now
        /\ added_turns' = <<>>
        /\ last_call' = Call("start_conversation", TRUE, TRUE, given # <<>>,
                             expired_sessions(conversation_history, clock, session_timeout))
        /\ calls' = calls + 1
        /\ returned' = <<[op |-> "start_conversation", result |-> greeting]>>
        /\ UNCHANGED <<max_context_turns, session_timeout, file, fresh_history, saved>>

StartConversation ==
    /\ \E elapsed \in 0..1, greeting \in greeting_responses :
          \/ \E session_id \in GivenSessionIds :
                 start_conversation(<<session_id>>, 0, elapsed, greeting)
          \/ \E id_elapsed \in 0..1 : start_conversation(<<>>, id_elapsed, elapsed, greeting)
    /\ UNCHANGED core_vars

\* add_turn(...) on the manager, entered when the clock reads `entered`.
\* Without a current context it first runs start_conversation(), which reads
\* the clock three times (see there) and whose greeting is dropped; then
\* datetime.now() is read for the timestamp of the turn (line 117), turn_elapsed
\* after the reading of the cleanup.  With a current context the timestamp is
\* the only reading.
add_turn_state(in, entered, id_elapsed, elapsed, turn_elapsed) ==
    /\ calls < MaxCalls
    /\ entered + id_elapsed + elapsed + turn_elapsed <= MaxClock
    /\ IF current_context = <<>>
       THEN LET now == entered + id_elapsed
                cleanup_now == now + elapsed
                r == start_conversation_result(conversation_history, auto_session_id(entered),
                                               now, cleanup_now, session_timeout)
                turn == ConversationTurn(cleanup_now + turn_elapsed, in)
                context == add_turn_context(r.current_context[1], turn, max_context_turns)
            IN  /\ current_context' = <<context>>
                /\ conversation_history' =
                       IF r.current_in_history
                       THEN dict_set(r.conversation_history, context.session_id, context)
                       ELSE r.conversation_history
                /\ current_in_history' = r.current_in_history
                /\ added_turns' = <<turn>>
                /\ last_call' = Call("add_turn", TRUE, TRUE, FALSE,
                                     expired_sessions(conversation_history, entered,
                                                      session_timeout))
       ELSE LET turn == ConversationTurn(entered, in)
                context == add_turn_context(current_context[1], turn, max_context_turns)
            IN  /\ id_elapsed = 0 /\ elapsed = 0 /\ turn_elapsed = 0
                /\ Len(added_turns) < MaxAdded
                /\ current_context' = <<context>>
                /\ conversation_history' =
                       IF current_in_history
                       THEN dict_set(conversation_history, context.session_id, context)
                       ELSE conversation_history
                /\ current_in_history' = current_in_history
                /\ added_turns' = Append(added_turns, turn)
                /\ last_call' = Call("add_turn", TRUE, FALSE, FALSE, {})
    /\ calls' = calls + 1
    /\ UNCHANGED <<max_context_turns, session_timeout, file, fresh_history, saved>>

\* add_turn(...) called by itself: it returns nothing, and the clock stands at
\* its last reading.
add_turn(in, id_elapsed, elapsed, turn_elapsed) ==
    /\ add_turn_state(in, clock, id_elapsed, elapsed, turn_elapsed)
    /\ clock' = clock + id_elapsed + elapsed + turn_elapsed
    /\ returned' = <<>>
    /\ UNCHANGED core_vars

AddTurn ==
    \E in \in TurnInputs, id_elapsed \in 0..1, elapsed \in 0..1, turn_elapsed \in 0..1 :
        add_turn(in, id_elapsed, elapsed, turn_elapsed)

\* Time passes between two calls.
Tick ==
    /\ clock < MaxClock
    /\ clock' = clock + 1
    /\ UNCHANGED <<max_context_turns, session_timeout, current_context, conversation_history,
                   current_in_history, file, fresh_history, added_turns, saved, last_call, calls,
                   returned>>
    /\ UNCHANGED core_vars

\* ------------------------------------------------------------- persistence
\* Mutant of isoformat: the text is cut at whole seconds.
isoformat_whole_seconds(t) == [seconds |-> t \div TicksPerSecond, fraction |-> 0]

\* datetime.isoformat(): the seconds and the fraction of a second, as text.
isoformat(t) == [seconds |-> t \div TicksPerSecond, fraction |-> t % TicksPerSecond]

\* datetime.fromisoformat()
fromisoformat(text) == text.seconds * TicksPerSecond + text.fraction

\* Whether json.dump can write the entities of a turn: the 'raw' entity holds
\* a Python object, every other entity a string or a list of strings.
json_serializable(entities) == "raw" \notin DOMAIN entities

\* asdict(turn) with the timestamp as ISO text.
turn_to_dict(turn) == [turn EXCEPT !.timestamp = isoformat(turn.timestamp)]

\* asdict(context) with the timestamps as ISO text and the turns as dicts.
context_to_dict(context) ==
    [context EXCEPT !.started_at = isoformat(context.started_at),
                    !.last_interaction = isoformat(context.last_interaction),
                    !.turns = [i \in DOMAIN context.turns |-> turn_to_dict(context.turns[i])]]

\* history_data of save_conversation_history: every session of the history.
history_to_data(history) ==
    [i \in DOMAIN history |->
        [key |-> history[i].key, value |-> context_to_dict(history[i].value)]]

history_serializable(history) ==
    \A i \in DOMAIN history : \A j \in DOMAIN history[i].value.turns :
        json_serializable(history[i].value.turns[j].entities)

NoFile == [kind |-> "absent", data |-> <<>>]
TruncatedFile == [kind |-> "truncated", data |-> <<>>]

\* Whether save_conversation_history reaches its last line.
save_succeeds(history, io) == io = "ok" /\ history_serializable(history)

\* The file after save_conversation_history: open(filepath, 'w') truncates it
\* and json.dump writes it piece by piece, so a failure after the open leaves
\* the beginning of the new content.
saved_file(history, old_file, io) ==
    IF io = "open_error" THEN old_file
    ELSE IF save_succeeds(history, io) THEN [kind |-> "json", data |-> history_to_data(history)]
    ELSE TruncatedFile

TurnFields == {"timestamp", "user_input", "intent_plugin", "intent_confidence",
               "entities", "sarah_response", "execution_successful"}
ContextRequiredFields == {"session_id", "started_at", "last_interaction", "turns"}
ContextFields == ContextRequiredFields \cup {"active_topic", "user_preferences", "location_context"}

\* Whether the loop body of load_conversation_history runs through for one
\* session record: the keys it reads exist and the dataclasses accept the rest.
context_dict_ok(d) ==
    /\ ContextRequiredFields \subseteq DOMAIN d
    /\ DOMAIN d \subseteq ContextFields
    /\ \A j \in DOMAIN d.turns : DOMAIN d.turns[j] = TurnFields

turn_from_dict(d) == [d EXCEPT !.timestamp = fromisoformat(d.timestamp)]

\* ConversationContext(**context_dict), absent optional fields at their defaults.
context_from_dict(d) ==
    [session_id |-> d.session_id,
     started_at |-> fromisoformat(d.started_at),
     last_interaction |-> fromisoformat(d.last_interaction),
     turns |-> [j \in DOMAIN d.turns |-> turn_from_dict(d.turns[j])],
     active_topic |-> IF "active_topic" \in DOMAIN d THEN d.active_topic ELSE NoneStr,
     user_preferences |-> IF "user_preferences" \in DOMAIN d THEN d.user_preferences ELSE NoneStr,
     location_context |-> IF "location_context" \in DOMAIN d THEN d.location_context ELSE NoneStr]

RECURSIVE load_items(_, _, _)
\* The loop of load_conversation_history from item i on, `loaded` being
\* self.conversation_history so far; it stops at the first record that raises.
load_items(data, i, loaded) ==
    IF i > Len(data) THEN [ok |-> TRUE, conversation_history |-> loaded]
    ELSE IF ~context_dict_ok(data[i].value) THEN [ok |-> FALSE, conversation_history |-> loaded]
    ELSE load_items(data, i + 1, dict_set(loaded, data[i].key, context_from_dict(data[i].value)))

\* load_conversation_history: open and json.load raise before the history is
\* touched; after them the history is emptied and filled record by record.
load_result(the_file, history) ==
    IF the_file.kind # "json" THEN [ok |-> FALSE, conversation_history |-> history]
    ELSE load_items(the_file.data, 1, <<>>)

save_conversation_history(io) ==
    /\ calls < MaxCalls
    /\ file' = saved_file(conversation_history, file, io)
    /\ saved' = IF save_succeeds(conversation_history, io) THEN <<conversation_history>>
                ELSE IF io = "open_error" THEN saved ELSE <<>>
    /\ last_call' = Call("save_conversation_history", save_succeeds(conversation_history, io),
                         FALSE, FALSE, {})
    /\ calls' = calls + 1
    /\ UNCHANGED <<max_context_turns, session_timeout, current_context, conversation_history,
                   current_in_history, clock, fresh_history, added_turns>>
    /\ returned' = <<>>
    /\ UNCHANGED core_vars

SaveConversationHistory ==
    \E io \in {"ok", "open_error", "write_error"} : save_conversation_history(io)

load_conversation_history ==
    /\ calls < MaxCalls
    /\ LET r == load_result(file, conversation_history)
       IN  /\ conversation_history' = r.conversation_history
           /\ current_in_history' = (current_in_history /\ file.kind # "json")
           /\ last_call' = Call("load_conversation_history", r.ok, FALSE, FALSE, {})
    /\ calls' = calls + 1
    /\ UNCHANGED <<max_context_turns, session_timeout, current_context, clock, file,
                   fresh_history, added_turns, saved>>
    /\ returned' = <<>>
    /\ UNCHANGED core_vars

\* A manager just constructed loads the file: no call on the manager itself.
load_into_fresh_manager ==
    /\ fresh_history' = load_result(file, <<>>).conversation_history
    /\ last_call' = Call("load_into_fresh_manager", load_result(file, <<>>).ok, FALSE,
                         FALSE, {})
    /\ UNCHANGED <<max_context_turns, session_timeout, current_context, conversation_history,
                   current_in_history, clock, file, added_turns, saved, calls>>
    /\ returned' = <<>>
    /\ UNCHANGED core_vars

\* Fields an edit made outside the program removes from a session record.
DamagedFields == {"turns", "last_interaction"}

\* Another program rewrites the file and leaves one session record without a field.
ExternalEdit ==
    /\ file.kind = "json"
    /\ \A i \in DOMAIN file.data : context_dict_ok(file.data[i].value)
    /\ \E i \in DOMAIN file.data, field \in DamagedFields :
          file' = [file EXCEPT !.data[i].value =
                      [k \in DOMAIN file.data[i].value \ {field} |-> file.data[i].value[k]]]
    /\ saved' = <<>>
    /\ UNCHANGED <<max_context_turns, session_timeout, current_context, conversation_history,
                   current_in_history, clock, fresh_history, added_turns, last_call, calls,
                   returned>>
    /\ UNCHANGED core_vars

\* -------------------------------------------------------------------- text
\* Python str values are strings; s[i:i+1] is char_at(s, i).
char_at(s, i) == SubSeq(s, i, i)

WhitespaceChars == {" ", "\t", "\n"}      \* what \s and str.strip() match in the inputs used here
UpperCaseLetters == "ABCDEFGHIJKLMNOPQRSTUVWXYZ"
LowerCaseLetters == "abcdefghijklmnopqrstuvwxyz"

lower_char(c) ==
    IF \E i \in 1..Len(UpperCaseLetters) : char_at(UpperCaseLetters, i) = c
    THEN char_at(LowerCaseLetters, CHOOSE i \in 1..Len(UpperCaseLetters) : char_at(UpperCaseLetters, i) = c)
    ELSE c

RECURSIVE lower(_)
\* str.lower()
lower(s) ==
    IF s = "" THEN "" ELSE lower_char(char_at(s, 1)) \o lower(SubSeq(s, 2, Len(s)))

RECURSIVE strip(_)
\* str.strip()
strip(s) ==
    IF s = "" THEN ""
    ELSE IF char_at(s, 1) \in WhitespaceChars THEN strip(SubSeq(s, 2, Len(s)))
    ELSE IF char_at(s, Len(s)) \in WhitespaceChars THEN strip(SubSeq(s, 1, Len(s) - 1))
    ELSE s

RECURSIVE collapse_whitespace(_)
\* re.sub(r'\s+', ' ', s): every run of whitespace becomes one space.
collapse_whitespace(s) ==
    IF s = "" THEN ""
    ELSE IF char_at(s, 1) \in WhitespaceChars
    THEN IF Len(s) >= 2 /\ char_at(s, 2) \in WhitespaceChars
         THEN collapse_whitespace(SubSeq(s, 2, Len(s)))
         ELSE " " \o collapse_whitespace(SubSeq(s, 2, Len(s)))
    ELSE char_at(s, 1) \o collapse_whitespace(SubSeq(s, 2, Len(s)))

\* `sub in s` of Python, on strings: sub is found at some position of s,
\* character by character.
contains(s, sub) ==
    LET s_chars == [i \in 1..Len(s) |-> char_at(s, i)]
        sub_chars == [i \in 1..Len(sub) |-> char_at(sub, i)]
    IN  \E i \in 1..(Len(s) - Len(sub) + 1) :
           \A j \in 1..Len(sub) : s_chars[i + j - 1] = sub_chars[j]

RECURSIVE split_words(_, _, _)
\* str.split(): the maximal runs of non-whitespace characters, in order.
split_words(s, word, words) ==
    IF s = "" THEN (IF word = "" THEN words ELSE Append(words, word))
    ELSE IF char_at(s, 1) \in WhitespaceChars
    THEN split_words(SubSeq(s, 2, Len(s)), "", IF word = "" THEN words ELSE Append(words, word))
    ELSE split_words(SubSeq(s, 2, Len(s)), word \o char_at(s, 1), words)

split(s) == split_words(s, "", <<>>)

\* ------------------------------------------------------------ SarahAICore
\* A Python float that is a quotient of two integers (den > 0), with the
\* comparisons of the quotients.
Fraction(num, den) == [num |-> num, den |-> den]
ZeroConfidence == Fraction(0, 1)          \* 0.0
greater(a, b) == a.num * b.den > b.num * a.den
same_value(a, b) == a.num * b.den = b.num * a.den

PluginInfo(name, description, keywords) ==
    [name |-> name, description |-> description, keywords |-> keywords]

\* self.plugins_info, in the insertion order of the dict.
plugins_info ==
    << PluginInfo("weather", "Get weather information and forecasts for any location",
                  <<"weather", "temperature", "rain", "snow", "forecast", "climate">>),
       PluginInfo("time", "Show current time and date information",
                  <<"time", "date", "clock", "current", "now">>),
       PluginInfo("wiki", "Search Wikipedia for information about topics",
                  <<"wiki", "wikipedia", "information", "about", "tell me", "search">>),
       PluginInfo("google", "Search Google for information and websites",
                  <<"google", "search", "web", "find", "look up">>),
       PluginInfo("youtube", "Search YouTube for videos",
                  <<"youtube", "video", "videos", "watch", "music", "tutorial">>),
       PluginInfo("github", "Search GitHub for repositories and code",
                  <<"github", "repository", "code", "project", "library", "framework">>),
       PluginInfo("whois", "Get information about people, domains, or entities",
                  <<"who", "whois", "about", "information", "person", "biography">>),
       PluginInfo("watch", "Get movie and TV show information from IMDB",
                  <<"movie", "film", "tv show", "series", "imdb", "watch", "cinema">>),
       PluginInfo("speedtest", "Test internet connection speed",
                  <<"speed", "internet", "connection", "bandwidth", "test">>),
       PluginInfo("adhan", "Get Islamic prayer times for locations",
                  <<"prayer", "adhan", "islamic", "fajr", "dhuhr", "asr", "maghrib", "isha">>),
       PluginInfo("hi", "Greeting and general conversation",
                  <<"hello", "hi", "hey", "greetings", "good morning", "good evening">>),
       PluginInfo("marketwatch", "Get stock market and financial information",
                  <<"stock", "market", "price", "shares", "financial", "investment">>) >>

PluginNames == {plugins_info[i].name : i \in DOMAIN plugins_info}

\* _clean_input: strip, collapse the whitespace, lower-case.
_clean_input(text) == lower(collapse_whitespace(strip(text)))

\* What spaCy makes of a text: its named entities and its tokens.  An empty
\* text has neither; otherwise the tokens are the words, none of them a stop
\* word or punctuation for spaCy, and the first word may be read as a place.
SpacyDocs(text) ==
    LET words == split(text)
        tokens == [i \in DOMAIN words |-> [text |-> words[i], is_stop |-> FALSE, is_punct |-> FALSE]]
    IN  IF words = <<>> THEN {[ents |-> <<>>, tokens |-> <<>>]}
        ELSE {[ents |-> <<>>, tokens |-> tokens],
              [ents |-> <<[label_ |-> "GPE", text |-> words[1]]>>, tokens |-> tokens]}

stop_words == {"the", "is", "at", "which", "on", "a", "an", "and", "or", "but", "in", "with",
               "to", "for", "of", "as", "by"}

RECURSIVE entities_of_ents(_, _)
\* The loop over doc.ents: a later entity of the same type replaces an earlier one.
entities_of_ents(ents, entities) ==
    IF ents = <<>> THEN entities
    ELSE LET entity_type == lower(ents[1].label_)
         IN  entities_of_ents(Tail(ents),
                 IF entity_type \in {"person", "org", "gpe", "loc"}
                 THEN [k \in DOMAIN entities \cup {entity_type} |->
                          IF k = entity_type THEN ents[1].text ELSE entities[k]]
                 ELSE entities)

with_search_terms(entities, search_terms) ==
    IF search_terms = <<>> THEN entities
    ELSE [k \in DOMAIN entities \cup {"search_terms"} |->
             IF k = "search_terms" THEN search_terms ELSE entities[k]]

\* _extract_entities: from the spaCy document when nlp is loaded, from the
\* words of the text otherwise.
_extract_entities(text, nlp_loaded, doc) ==
    IF nlp_loaded
    THEN LET kept == SelectSeq(doc.tokens,
                         LAMBDA token : ~token.is_stop /\ ~token.is_punct /\ Len(token.text) > 2)
         IN  with_search_terms(entities_of_ents(doc.ents, EmptyDict),
                               [i \in DOMAIN kept |-> kept[i].text])
    ELSE with_search_terms(EmptyDict,
             SelectSeq(split(text), LAMBDA word : word \notin stop_words /\ Len(word) > 2))

\* keyword_matches and score of one plugin (lines 388 and 391).
keyword_score(plugin_info, text) ==
    LET keyword_matches == Cardinality({i \in DOMAIN plugin_info.keywords :
                                           contains(text, plugin_info.keywords[i])})
    IN  IF plugin_info.keywords # <<>>
        THEN Fraction(keyword_matches, Len(plugin_info.keywords))
        ELSE ZeroConfidence

Match(plugin, confidence) == [plugin |-> plugin, confidence |-> confidence]
DefaultMatch == Match("hi", ZeroConfidence)

RECURSIVE keyword_loop(_, _, _)
\* The loop of _keyword_based_matching from plugin number i on.
keyword_loop(text, i, best_match) ==
    IF i > Len(plugins_info) THEN best_match
    ELSE LET score == keyword_score(plugins_info[i], text)
         IN  keyword_loop(text, i + 1,
                          IF greater(score, best_match.confidence)
                          THEN Match(plugins_info[i].name, score)
                          ELSE best_match)

RECURSIVE keyword_loop_last_maximum(_, _, _)
keyword_loop_last_maximum(text, i, best_match) ==
    IF i > Len(plugins_info) THEN best_match
    ELSE LET score == keyword_score(plugins_info[i], text)
         IN  keyword_loop_last_maximum(text, i + 1,
                          IF ~greater(best_match.confidence, score)
                          THEN Match(plugins_info[i].name, score)
                          ELSE best_match)

\* Mutant of _keyword_based_matching: a plugin replaces the best match when
\* its score is not smaller.
keyword_matching_last_maximum(text) == keyword_loop_last_maximum(text, 1, DefaultMatch)

_keyword_based_matching(text) == keyword_loop(text, 1, DefaultMatch)

RECURSIVE embedding_loop(_, _, _)
\* The loop of _find_best_plugin_match over plugin_embeddings, which holds the
\* plugins of the catalog in catalog order.
embedding_loop(similarities, i, best_match) ==
    IF i > Len(plugins_info) THEN best_match
    ELSE LET plugin_name == plugins_info[i].name
         IN  embedding_loop(similarities, i + 1,
                            IF greater(similarities[plugin_name], best_match.confidence)
                            THEN Match(plugin_name, similarities[plugin_name])
                            ELSE best_match)

\* _find_best_plugin_match when encode() returns.
_find_best_plugin_match(text, model_loaded, similarities) ==
    IF ~model_loaded THEN _keyword_based_matching(text)
    ELSE embedding_loop(similarities, 1, DefaultMatch)

Intent(plugin_name, confidence, entities, raw_text) ==
    [plugin_name |-> plugin_name, confidence |-> confidence, entities |-> entities,
     raw_text |-> raw_text]

\* Mutant of understand_input_result: the Intent carries the cleaned text.
understand_input_cleaned_raw_text(user_input, nlp_loaded, doc, model_loaded, similarities) ==
    LET cleaned_input == _clean_input(user_input)
        plugin_match == _find_best_plugin_match(cleaned_input, model_loaded, similarities)
    IN  Intent(plugin_match.plugin, plugin_match.confidence,
               _extract_entities(cleaned_input, nlp_loaded, doc), cleaned_input)

\* understand_input when nothing in it raises.
understand_input_result(user_input, nlp_loaded, doc, model_loaded, similarities) ==
    LET cleaned_input == _clean_input(user_input)
        plugin_match == _find_best_plugin_match(cleaned_input, model_loaded, similarities)
    IN  Intent(plugin_match.plugin, plugin_match.confidence,
               _extract_entities(cleaned_input, nlp_loaded, doc), user_input)

RECURSIVE insert_by_confidence(_, _)
\* e enters a list sorted by non-increasing confidence behind every entry
\* whose confidence is not smaller than its own.
insert_by_confidence(sorted, e) ==
    IF sorted = <<>> THEN <<e>>
    ELSE IF greater(e.confidence, sorted[1].confidence) THEN <<e>> \o sorted
    ELSE <<sorted[1]>> \o insert_by_confidence(Tail(sorted), e)

RECURSIVE sort_by_confidence(_, _)
\* list.sort(key=confidence, reverse=True): stable, largest first.
sort_by_confidence(entries, sorted) ==
    IF entries = <<>> THEN sorted
    ELSE sort_by_confidence(Tail(entries), insert_by_confidence(sorted, entries[1]))

\* seq[:n] of Python for n >= 0.
first_slice(seq, n) == SubSeq(seq, 1, Min(n, Len(seq)))

config_max_suggestions == 3

\* get_suggestions when encode() returns.
get_suggestions_result(user_input, max_suggestions, model_loaded, similarities) ==
    LET limit == IF max_suggestions = <<>> THEN config_max_suggestions ELSE max_suggestions[1]
        suggestions == [i \in DOMAIN plugins_info |->
                           [plugin |-> plugins_info[i].name,
                            confidence |-> similarities[plugins_info[i].name],
                            description |-> plugins_info[i].description]]
    IN  IF ~model_loaded THEN <<_keyword_based_matching(user_input)>>
        ELSE first_slice(sort_by_confidence(suggestions, <<>>), limit)

\* The log entry of a call on the AI core: its name, its max_suggestions
\* argument (<<>> for None, <<n>> for n), whether encode() raised in it, whether the call raised, and
\* <<value>> for the value it returned.
CoreCall(op, max_suggestions, encode_failed, raised, result) ==
    [op |-> op, max_suggestions |-> max_suggestions, encode_failed |-> encode_failed,
     raised |-> raised, result |-> result]

NoCoreCall == CoreCall("__init__", <<>>, FALSE, FALSE, <<>>)

\* The log entry of an utterance the agent processed: the Intent it was
\* understood as, and <<value>> for the command built, for what
\* subprocess.run did and for what _execute_plugin returned (<<>> when the
\* agent did not get that far).
AgentCall(op, intent, command, run, success) ==
    [op |-> op, intent |-> intent, command |-> command, run |-> run, success |-> success]

NoAgentCall == AgentCall("__init__", <<>>, <<>>, <<>>, <<>>)

\* The fields AIAgentPlugin.__init__ sets before it calls _initialize_ai:
\* ai_core and conversation_manager are None, initialized is False.
NoAgent == [ai_core |-> FALSE, conversation_manager |-> FALSE, initialized |-> FALSE]

NoDoc == [ents |-> <<>>, tokens |-> <<>>]

\* understand_input(utterance): encode() is called when the sentence model is
\* loaded, and an exception of encode() leaves understand_input uncaught.
understand_input(doc, encode_ok) ==
    /\ core_call' =
          IF sentence_model /\ ~encode_ok
          THEN CoreCall("understand_input", <<>>, TRUE, TRUE, <<>>)
          ELSE CoreCall("understand_input", <<>>, FALSE, FALSE,
                        <<understand_input_result(utterance, nlp, doc, sentence_model, similarity)>>)
    /\ UNCHANGED <<nlp, sentence_model, utterance, similarity, agent_call, agent>>
    /\ UNCHANGED manager_vars

UnderstandInput ==
    \E doc \in (IF nlp THEN SpacyDocs(_clean_input(utterance)) ELSE {NoDoc}),
       encode_ok \in (IF sentence_model THEN BOOLEAN ELSE {TRUE}) :
        understand_input(doc, encode_ok)

\* get_suggestions(utterance, max_suggestions)
get_suggestions(max_suggestions, encode_ok) ==
    /\ core_call' =
          IF sentence_model /\ ~encode_ok
          THEN CoreCall("get_suggestions", max_suggestions, TRUE, TRUE, <<>>)
          ELSE CoreCall("get_suggestions", max_suggestions, FALSE, FALSE,
                        <<get_suggestions_result(utterance, max_suggestions, sentence_model,
                                                 similarity)>>)
    /\ UNCHANGED <<nlp, sentence_model, utterance, similarity, agent_call, agent>>
    /\ UNCHANGED manager_vars

GetSuggestions ==
    \E max_suggestions \in {<<>>} \cup {<<n>> : n \in 0..MaxLimit},
       encode_ok \in (IF sentence_model THEN BOOLEAN ELSE {TRUE}) :
        get_suggestions(max_suggestions, encode_ok)

confidence_threshold == Fraction(6, 10)      \* config['confidence_threshold'] = 0.6

RECURSIVE str(_)
\* str(n) for n >= 0
str(n) ==
    IF n < 10 THEN char_at("0123456789", n + 1)
    ELSE str(n \div 10) \o char_at("0123456789", (n % 10) + 1)

\* f"{confidence:.2f}": two decimals, a tie rounded to the even digit.
format_2f(confidence) ==
    LET scaled == (IF confidence.num < 0 THEN -confidence.num ELSE confidence.num) * 100
        quotient == scaled \div confidence.den
        remainder == scaled % confidence.den
        rounded == IF \/ 2 * remainder > confidence.den
                      \/ 2 * remainder = confidence.den /\ quotient % 2 = 1
                   THEN quotient + 1 ELSE quotient
    IN  (IF confidence.num < 0 THEN "-" ELSE "") \o str(rounded \div 100) \o "."
            \o str((rounded \div 10) % 10) \o str(rounded % 10)

RECURSIVE suggestion_lines(_, _)
\* The numbered lines of the suggestions from number i on.
suggestion_lines(suggestions, i) ==
    IF i > Len(suggestions) THEN ""
    ELSE str(i) \o ". " \o suggestions[i].description \o " (confidence: "
             \o format_2f(suggestions[i].confidence) \o ")\n"
             \o suggestion_lines(suggestions, i + 1)

\* format_response(intent, result) when encode() returns: <<text>>, or <<>>
\* when suggestion['description'] raises KeyError (result is <<>> for None).
format_response_result(intent, result, model_loaded, similarities) ==
    IF greater(confidence_threshold, intent.confidence)
    THEN LET suggestions == get_suggestions_result(intent.raw_text, <<3>>, model_loaded,
                                                   similarities)
         IN  IF \E i \in DOMAIN suggestions : "description" \notin DOMAIN suggestions[i]
             THEN <<>>
             ELSE <<"I'm not quite sure what you mean by '" \o intent.raw_text
                    \o "'. Did you mean:\n" \o suggestion_lines(suggestions, 1)>>
    ELSE IF result # <<>> /\ result[1] # ""
    THEN <<"Here's what I found:\n" \o result[1]>>
    ELSE <<"I understood you want to use " \o intent.plugin_name \o " with confidence "
           \o format_2f(intent.confidence)>>

\* format_response(understand_input(utterance), result): get_suggestions, and
\* with it encode(), is called only below the confidence threshold.
format_response(doc, result, encode_ok) ==
    /\ \E intent \in {understand_input_result(utterance, nlp, doc, sentence_model, similarity)} :
          IF sentence_model /\ greater(confidence_threshold, intent.confidence) /\ ~encode_ok
          THEN core_call' = CoreCall("format_response", <<3>>, TRUE, TRUE, <<>>)
          ELSE \E text \in {format_response_result(intent, result, sentence_model, similarity)} :
                  core_call' = CoreCall("format_response", <<3>>, FALSE, text = <<>>, text)
    /\ UNCHANGED <<nlp, sentence_model, utterance, similarity, agent_call, agent>>
    /\ UNCHANGED manager_vars

FormatResponse ==
    \E doc \in (IF nlp THEN SpacyDocs(_clean_input(utterance)) ELSE {NoDoc}),
       result \in {<<>>, <<"Sunny">>},
       encode_ok \in (IF sentence_model THEN BOOLEAN ELSE {TRUE}) :
        format_response(doc, result, encode_ok)

\* The utterances tried: empty, blank, a greeting, upper case, doubled
\* whitespace inside a keyword of two words, a keyword shared by two plugins,
\* every keyword of one plugin (with and without a keyword of another plugin
\* inside: "snow" holds "now"), and no keyword at all.
Utterances ==
    {"", " \t ", "hi", "Weather", "Tell  me about cats", "about",
     "weather temperature rain snow forecast climate", "time date clock current now", "xyz"}

\* Cosine similarities are the multiples of 1/SimilaritySteps in [-1, 1].
SimilarityValues == {Fraction(k, SimilaritySteps) : k \in (-SimilaritySteps)..SimilaritySteps}

\* The plugins whose similarity varies on its own; the others share one value.
ProbedPlugins == {"weather", "hi"}

Similarities ==
    {[name \in PluginNames |-> IF name \in ProbedPlugins THEN probed[name] ELSE others] :
        probed \in [ProbedPlugins -> SimilarityValues], others \in SimilarityValues}

\* ------------------------------------------------------------ specification
\* The ConversationManager just constructed, but for its two configured values.
ManagerConstructed ==
    /\ current_context = <<>>
    /\ conversation_history = <<>>
    /\ current_in_history = FALSE
    /\ clock = 0
    /\ file = NoFile
    /\ fresh_history = <<>>
    /\ added_turns = <<>>
    /\ saved = <<>>
    /\ last_call = Call("__init__", TRUE, FALSE, FALSE, {})
    /\ calls = 0
    /\ returned = <<>>

\* An AI core without models, on which nothing is called.
CoreIdle ==
    /\ nlp = FALSE
    /\ sentence_model = FALSE
    /\ utterance = ""
    /\ similarity = <<>>
    /\ core_call = NoCoreCall
    /\ agent_call = NoAgentCall
    /\ agent = NoAgent

Init ==
    /\ max_context_turns \in 0..MaxContextTurns
    /\ session_timeout \in {m * TicksPerMinute : m \in ConfiguredTimeoutMinutes}
    /\ ManagerConstructed
    /\ CoreIdle

Next ==
    \/ StartConversation
    \/ AddTurn
    \/ SaveConversationHistory
    \/ load_conversation_history
    \/ load_into_fresh_manager
    \/ ExternalEdit
    \/ Tick

Spec == Init /\ [][Next]_vars

\* The manager used in memory only: sessions and turns, no file.
LifecycleNext ==
    \/ StartConversation
    \/ AddTurn
    \/ Tick

LifecycleSpec == Init /\ [][LifecycleNext]_vars

\* The history written by the manager and read back by a fresh manager.
RoundTripNext ==
    \/ StartConversation
    \/ AddTurn
    \/ SaveConversationHistory
    \/ load_into_fresh_manager
    \/ Tick

\* What is written and read back does not depend on the number of turns kept.
RoundTripInit == Init /\ max_context_turns = MaxContextTurns

RoundTripSpec == RoundTripInit /\ [][RoundTripNext]_vars

\* ------------------------------------------------- contextual responses
farewell_responses ==
    {"Goodbye! Feel free to ask me anything anytime.",
     "See you later! I'm always here when you need help.",
     "Take care! Don't hesitate to come back if you need anything.",
     "Bye! Looking forward to helping you again soon."}

acknowledgment_responses ==
    {"Got it!", "Understood!", "Perfect!", "Sure thing!", "Absolutely!", "No problem!"}

greetings == {"hello", "hi", "hey", "good morning", "good afternoon", "good evening",
              "greetings", "howdy"}
farewells == {"goodbye", "bye", "see you", "farewell", "exit", "quit", "thanks", "thank you",
              "that's all"}
follow_up_words == {"also", "and", "what about", "how about", "more", "another"}

\* any(phrase in text.lower() for phrase in phrases)
any_in_lower(phrases, text) ==
    LET lowered == lower(text) IN \E phrase \in phrases : contains(lowered, phrase)

_is_greeting(user_input) == any_in_lower(greetings, user_input)
_is_farewell(user_input) == any_in_lower(farewells, user_input)

\* Mutant of _is_follow_up_question: the follow-up words are not looked at.
is_follow_up_same_plugin_only(context, user_input, intent_plugin, now) ==
    /\ context.turns # <<>>
    /\ LET last_turn == context.turns[Len(context.turns)]
       IN  now - last_turn.timestamp < 2 * TicksPerMinute /\ intent_plugin = last_turn.intent_plugin

\* _is_follow_up_question on a current context: never without a turn; with
\* one, the same plugin as the last turn within two minutes, or a follow-up word.
_is_follow_up_question(context, user_input, intent_plugin, now) ==
    /\ context.turns # <<>>
    /\ LET last_turn == context.turns[Len(context.turns)]
           time_diff == now - last_turn.timestamp
       IN  \/ time_diff < 2 * TicksPerMinute /\ intent_plugin = last_turn.intent_plugin
           \/ any_in_lower(follow_up_words, user_input)

\* The texts random.choice can make each of the three answers.
_get_contextual_greeting(context) ==
    IF context.turns # <<>> THEN {"Welcome back! What else can I help you with?"}
    ELSE greeting_responses

_get_farewell_response(context) ==
    {IF Len(context.turns) > 0 THEN base_farewell \o " It was great helping you today!"
     ELSE base_farewell : base_farewell \in farewell_responses}

_handle_follow_up(base_response) ==
    {acknowledgment \o " Here's more information:\n" \o base_response :
        acknowledgment \in acknowledgment_responses}

\* A string is truthy in Python when it is neither None nor empty.
truthy(text) == text # NoneStr /\ text # ""

\* Mutant of _add_context_to_response: the hints are appended without looking
\* for the location or the topic in the response.
add_context_always_hints(context, base_response, intent_plugin) ==
    LET with_location ==
            IF intent_plugin = "weather" /\ truthy(context.location_context)
            THEN base_response \o "\n(I remember you usually ask about "
                               \o context.location_context \o ")"
            ELSE base_response
    IN  IF /\ truthy(context.active_topic)
           /\ intent_plugin \in {"wiki", "google", "youtube", "github"}
        THEN with_location \o "\n(Related to our discussion about " \o context.active_topic \o ")"
        ELSE with_location

_add_context_to_response(context, base_response, intent_plugin) ==
    LET with_location ==
            IF /\ intent_plugin = "weather"
               /\ truthy(context.location_context)
               /\ ~contains(lower(base_response), lower(context.location_context))
            THEN base_response \o "\n(I remember you usually ask about "
                               \o context.location_context \o ")"
            ELSE base_response
    IN  IF /\ truthy(context.active_topic)
           /\ intent_plugin \in {"wiki", "google", "youtube", "github"}
           /\ ~contains(lower(with_location), lower(context.active_topic))
        THEN with_location \o "\n(Related to our discussion about " \o context.active_topic \o ")"
        ELSE with_location

\* Mutant of contextual_responses: the farewell is looked for before the greeting.
contextual_responses_farewell_first(context, user_input, intent_plugin, base_response, now) ==
    IF context = <<>> THEN {base_response}
    ELSE IF _is_farewell(user_input) THEN _get_farewell_response(context[1])
    ELSE IF _is_greeting(user_input) THEN _get_contextual_greeting(context[1])
    ELSE IF _is_follow_up_question(context[1], user_input, intent_plugin, now)
    THEN _handle_follow_up(base_response)
    ELSE {_add_context_to_response(context[1], base_response, intent_plugin)}

\* The texts get_contextual_response can return (context is <<>> or <<ctx>>).
contextual_responses(context, user_input, intent_plugin, base_response, now) ==
    IF context = <<>> THEN {base_response}
    ELSE IF _is_greeting(user_input) THEN _get_contextual_greeting(context[1])
    ELSE IF _is_farewell(user_input) THEN _get_farewell_response(context[1])
    ELSE IF _is_follow_up_question(context[1], user_input, intent_plugin, now)
    THEN _handle_follow_up(base_response)
    ELSE {_add_context_to_response(context[1], base_response, intent_plugin)}

\* get_contextual_response(user_input, intent_plugin, entities, base_response)
\* (entities is not read by the code).
get_contextual_response(user_input, intent_plugin, base_response) ==
    /\ \E result \in contextual_responses(current_context, user_input, intent_plugin,
                                          base_response, clock) :
          returned' = <<[op |-> "get_contextual_response", user_input |-> user_input,
                         intent_plugin |-> intent_plugin, base_response |-> base_response,
                         now |-> clock, result |-> result]>>
    /\ last_call' = Call("get_contextual_response", TRUE, FALSE, FALSE, {})
    /\ UNCHANGED <<max_context_turns, session_timeout, current_context, conversation_history,
                   current_in_history, clock, file, fresh_history, added_turns, saved, calls>>
    /\ UNCHANGED core_vars

\* What the user says: a greeting, a greeting with a farewell and a follow-up
\* word, a farewell, a farewell with follow-up words, a follow-up word only,
\* and none of them.
ResponseInputs ==
    {"Hello", "hi and bye", "bye", "thanks and more", "what about Paris", "weather"}

\* Two answers of a plugin: each names, in other letters, the place or the
\* topic a session can hold, and not the other.
BaseResponses == {"Sunny in PARIS", "All about Cats"}

\* The agent answers the text the user typed.
GetContextualResponse ==
    \E intent_plugin \in {"weather", "wiki"}, base_response \in BaseResponses :
        get_contextual_response(utterance, intent_plugin, base_response)

\* ------------------------------------------------------------------ summary
RecentTurns == 5               \* turns[-5:] of get_conversation_summary
DefaultMaxContextTurns == 10   \* the default of max_context_turns

RECURSIVE unique_in_order(_, _)
\* The values of a list, each kept where it occurs first.
unique_in_order(values, seen) ==
    IF values = <<>> THEN seen
    ELSE unique_in_order(Tail(values),
             IF \E i \in DOMAIN seen : seen[i] = values[1] THEN seen ELSE Append(seen, values[1]))

\* Mutant of conversation_summary: every turn is read, not the last five.
conversation_summary_all_turns(context, now) ==
    IF context = <<>> THEN [status |-> "no_active_conversation"]
    ELSE LET turns == context[1].turns
         IN  [session_id |-> context[1].session_id,
              duration |-> now - context[1].started_at,
              total_turns |-> Len(context[1].turns),
              active_topic |-> context[1].active_topic,
              recent_plugins |-> unique_in_order([i \in DOMAIN turns |-> turns[i].intent_plugin], <<>>),
              recent_topics |-> UNION {{turns[i].entities.search_terms[j] :
                                            j \in DOMAIN turns[i].entities.search_terms} :
                                       i \in {k \in DOMAIN turns :
                                                 "search_terms" \in DOMAIN turns[k].entities}},
              user_preferences |-> context[1].user_preferences]

\* The dict get_conversation_summary returns (context is <<>> or <<ctx>>).
conversation_summary(context, now) ==
    IF context = <<>> THEN [status |-> "no_active_conversation"]
    ELSE LET turns == last_slice(context[1].turns, RecentTurns)
         IN  [session_id |-> context[1].session_id,
              duration |-> now - context[1].started_at,
              total_turns |-> Len(context[1].turns),
              active_topic |-> context[1].active_topic,
              recent_plugins |-> unique_in_order([i \in DOMAIN turns |-> turns[i].intent_plugin], <<>>),
              recent_topics |-> UNION {{turns[i].entities.search_terms[j] :
                                            j \in DOMAIN turns[i].entities.search_terms} :
                                       i \in {k \in DOMAIN turns :
                                                 "search_terms" \in DOMAIN turns[k].entities}},
              user_preferences |-> context[1].user_preferences]

\* get_conversation_summary()
\* Mutant of get_conversation_summary: the turns older than the recent ones
\* are dropped from the context while the summary is made.
get_conversation_summary_trimming ==
    /\ returned' = <<[op |-> "get_conversation_summary", now |-> clock,
                      result |-> conversation_summary(current_context, clock)]>>
    /\ last_call' = Call("get_conversation_summary", TRUE, FALSE, FALSE, {})
    /\ current_context' =
           IF current_context = <<>> THEN current_context
           ELSE <<[current_context[1] EXCEPT !.turns = last_slice(@, 1)]>>
    /\ UNCHANGED <<max_context_turns, session_timeout, conversation_history,
                   current_in_history, clock, file, fresh_history, added_turns, saved, calls>>
    /\ UNCHANGED core_vars

get_conversation_summary ==
    /\ returned' = <<[op |-> "get_conversation_summary", now |-> clock,
                      result |-> conversation_summary(current_context, clock)]>>
    /\ last_call' = Call("get_conversation_summary", TRUE, FALSE, FALSE, {})
    /\ UNCHANGED <<max_context_turns, session_timeout, current_context, conversation_history,
                   current_in_history, clock, file, fresh_history, added_turns, saved, calls>>
    /\ UNCHANGED core_vars

\* The AI core alone: an utterance, and the similarities the sentence model
\* gives it when it is loaded, are fixed; the calls are made on them.
CoreInit ==
    /\ max_context_turns = MaxContextTurns
    /\ session_timeout = TicksPerMinute
    /\ ManagerConstructed
    /\ nlp \in BOOLEAN
    /\ sentence_model \in BOOLEAN
    /\ utterance \in Utterances
    /\ similarity \in (IF sentence_model THEN Similarities ELSE {<<>>})
    /\ core_call = NoCoreCall
    /\ agent_call = NoAgentCall
    /\ agent = NoAgent

CoreNext ==
    \/ UnderstandInput
    \/ GetSuggestions

CoreSpec == CoreInit /\ [][CoreNext]_vars

\* The answers made of the suggestions.
FormatNext ==
    \/ GetSuggestions
    \/ FormatResponse

\* format_response does not read the entities: the core without spaCy.
FormatInit == CoreInit /\ ~nlp

FormatSpec == FormatInit /\ [][FormatNext]_vars

RECURSIVE turns_of(_, _)
\* The turns made at time `now` from a list of add_turn arguments.
turns_of(inputs, now) ==
    IF inputs = <<>> THEN <<>>
    ELSE <<ConversationTurn(now, inputs[1])>> \o turns_of(Tail(inputs), now)

RECURSIVE context_after(_, _, _)
\* The context after add_turn was called with each of the turns.
context_after(context, turns, max_turns) ==
    IF turns = <<>> THEN context
    ELSE context_after(add_turn_context(context, turns[1], max_turns), Tail(turns), max_turns)

\* A manager without a session, or one on which start_conversation and then
\* up to max_added add_turn calls were made at time 0; since then the clock
\* has moved on to one of `clocks` and the user has typed one of `typed`.
DialogueInit(configured_turns, max_added, clocks, typed) ==
    /\ max_context_turns \in configured_turns
    /\ session_timeout = TicksPerMinute
    /\ clock \in clocks
    /\ file = NoFile
    /\ fresh_history = <<>>
    /\ saved = <<>>
    /\ calls = 0
    /\ nlp = FALSE
    /\ sentence_model = FALSE
    /\ utterance \in typed
    /\ similarity = <<>>
    /\ core_call = NoCoreCall
    /\ agent_call = NoAgentCall
    /\ agent = NoAgent
    /\ \/ /\ current_context = <<>>
          /\ conversation_history = <<>>
          /\ current_in_history = FALSE
          /\ added_turns = <<>>
          /\ last_call = Call("__init__", TRUE, FALSE, FALSE, {})
          /\ returned = <<>>
       \/ \E n \in 0..max_added, session_id \in GivenSessionIds :
             \E inputs \in [1..n -> TurnInputs] :
                LET context == context_after(ConversationContext(session_id, 0),
                                             turns_of(inputs, 0), max_context_turns)
                IN  /\ current_context = <<context>>
                    /\ conversation_history = <<[key |-> session_id, value |-> context]>>
                    /\ current_in_history = TRUE
                    /\ added_turns = turns_of(inputs, 0)
                    /\ last_call = IF n = 0 THEN Call("start_conversation", TRUE, TRUE, TRUE, {})
                                   ELSE Call("add_turn", TRUE, FALSE, FALSE, {})
                    /\ returned \in
                           IF n = 0
                           THEN {<<[op |-> "start_conversation", result |-> greeting]>> :
                                    greeting \in greeting_responses}
                           ELSE {<<>>}

\* The answers made from the current context: at once, just inside the two
\* minutes of the follow-up window after the last turn, and at its end.
ResponseInit ==
    DialogueInit({MaxContextTurns}, MaxResponseTurns,
                 {0, 2 * TicksPerMinute - 1, 2 * TicksPerMinute}, ResponseInputs)

ResponseNext ==
    \/ GetContextualResponse

ResponseSpec == ResponseInit /\ [][ResponseNext]_vars

\* The values max_context_turns is configured with where longer sessions are
\* looked at: 0, a small one and the default.
SummaryMaxContextTurns == {0, MaxContextTurns, DefaultMaxContextTurns}

\* The summaries of sessions of up to MaxSummaryTurns turns.
SummaryInit == DialogueInit(SummaryMaxContextTurns, MaxSummaryTurns, {0}, {""})

SummaryNext ==
    \/ get_conversation_summary
    \/ Tick

SummarySpec == SummaryInit /\ [][SummaryNext]_vars

\* The turns that bear on the topic: more than three search terms, one, an
\* empty list (with a plugin that is a topic and with one that is not), and
\* no search terms (likewise).
TopicInputs ==
    { turn_input("weather", [search_terms |-> <<"rain", "in", "paris", "today">>]),
      turn_input("wiki", [search_terms |-> <<"cats">>]),
      turn_input("time", [search_terms |-> <<>>]),
      turn_input("wiki", [search_terms |-> <<>>]),
      turn_input("speedtest", EmptyDict),
      turn_input("hi", EmptyDict) }

AddTopicTurn ==
    \E in \in TopicInputs, id_elapsed \in 0..1, elapsed \in 0..1, turn_elapsed \in 0..1 :
        add_turn(in, id_elapsed, elapsed, turn_elapsed)

TopicNext ==
    \/ StartConversation
    \/ AddTopicTurn

\* Sessions whose turns bear on the topic.
TopicSpec == Init /\ [][TopicNext]_vars

\* The manager in use: sessions are started, turns added, the history saved,
\* and in between the answers and the summary are asked for.
FrameInit ==
    /\ max_context_turns = MaxContextTurns
    /\ session_timeout = TicksPerMinute
    /\ ManagerConstructed
    /\ nlp = FALSE
    /\ sentence_model = FALSE
    /\ utterance \in {"Hello", "weather"}
    /\ similarity = <<>>
    /\ core_call = NoCoreCall
    /\ agent_call = NoAgentCall
    /\ agent = NoAgent

FrameNext ==
    \/ StartConversation
    \/ AddTurn
    \/ SaveConversationHistory
    \/ get_contextual_response(utterance, "weather", "No results")
    \/ get_conversation_summary

FrameSpec == FrameInit /\ [][FrameNext]_vars

\* ------------------------------------------------------------------- agent
\* What subprocess.run(sarah_cmd, capture_output=True, text=True, timeout=30)
\* did: it returned a CompletedProcess, or raised TimeoutExpired or another
\* exception (the executable is missing), or the user interrupted the wait
\* (KeyboardInterrupt, which no `except Exception` catches).
CompletedProcess(returncode, stdout, stderr) ==
    [raised |-> "None",
     result |-> <<[returncode |-> returncode, stdout |-> stdout, stderr |-> stderr]>>]

Raised(exception) == [raised |-> exception, result |-> <<>>]

Runs ==
    {CompletedProcess(returncode, "Sunny", stderr) :
        returncode \in {0, 1}, stderr \in {"", "deprecated option"}}
    \cup {Raised("TimeoutExpired"), Raised("FileNotFoundError"), Raised("KeyboardInterrupt")}

\* _prepare_plugin_args(intent)
_prepare_plugin_args(intent) ==
    LET entities == intent.entities
        search_terms == IF "search_terms" \in DOMAIN entities THEN entities.search_terms
                        ELSE <<>>
        location == IF intent.plugin_name \in {"weather", "adhan"}
                    THEN IF "gpe" \in DOMAIN entities THEN <<entities.gpe>>
                         ELSE IF "loc" \in DOMAIN entities THEN <<entities.loc>>
                         ELSE <<>>
                    ELSE <<>>
        person == IF intent.plugin_name = "whois" /\ "person" \in DOMAIN entities
                  THEN <<entities.person>> ELSE <<>>
        args == search_terms \o location \o person
    IN  IF args = <<>> /\ "search_terms" \in DOMAIN entities THEN entities.search_terms
        ELSE args

\* ['sarah', intent.plugin_name] + plugin_args
sarah_cmd(intent) == <<"sarah", intent.plugin_name>> \o _prepare_plugin_args(intent)

\* What _execute_plugin returns when subprocess.run did `run`, an exception it
\* catches included.
_execute_plugin(run) ==
    IF run.raised # "None" THEN FALSE
    ELSE LET result == run.result[1]
         IN  IF result.stderr # "" /\ result.returncode # 0 THEN FALSE
             ELSE result.returncode = 0

\* The arguments of the add_turn call of _process_natural_language.
agent_turn(user_input, intent, success) ==
    [user_input |-> user_input, intent_plugin |-> intent.plugin_name,
     intent_confidence |-> intent.confidence, entities |-> intent.entities,
     sarah_response |-> IF success THEN "Command executed successfully" ELSE "Command failed",
     execution_successful |-> success]

\* keyword_mapping of _fallback_processing, in the insertion order of the dict.
keyword_mapping ==
    << [plugin |-> "weather", keywords |-> <<"weather", "temperature", "rain", "snow", "forecast">>],
       [plugin |-> "time", keywords |-> <<"time", "date", "clock">>],
       [plugin |-> "wiki", keywords |-> <<"wiki", "wikipedia", "about", "information">>],
       [plugin |-> "google", keywords |-> <<"google", "search", "find">>],
       [plugin |-> "youtube", keywords |-> <<"youtube", "video", "music">>],
       [plugin |-> "github", keywords |-> <<"github", "code", "repository">>],
       [plugin |-> "speedtest", keywords |-> <<"speed", "internet", "connection">>],
       [plugin |-> "hi", keywords |-> <<"hello", "hi", "hey", "greetings">>] >>

RECURSIVE fallback_loop(_, _, _)
\* The loop of _fallback_processing over keyword_mapping from item i on:
\* best_match is <<>> for None.
fallback_loop(user_lower, i, best) ==
    IF i > Len(keyword_mapping) THEN best
    ELSE LET keywords == keyword_mapping[i].keywords
             matches == Cardinality({k \in DOMAIN keywords : contains(user_lower, keywords[k])})
         IN  fallback_loop(user_lower, i + 1,
                           IF matches > best.max_matches
                           THEN [best_match |-> <<keyword_mapping[i].plugin>>,
                                 max_matches |-> matches]
                           ELSE best)

\* _fallback_processing(user_input): the plugin with the most keywords in the
\* lower-cased input runs with the first five words longer than two
\* characters; without a match nothing runs.  Neither the AI core nor the
\* conversation manager is used.  The step ends where subprocess.run starts
\* to wait for the command.
_fallback_processing(user_input) ==
    /\ \E best \in {fallback_loop(lower(user_input), 1, [best_match |-> <<>>, max_matches |-> 0])} :
          IF best.best_match # <<>> /\ best.max_matches > 0
          THEN agent_call' =
                   AgentCall("_fallback_processing", <<>>,
                             <<(<<"sarah", best.best_match[1]>>
                                \o first_slice(SelectSeq(split(user_input),
                                                         LAMBDA word : Len(word) > 2), 5))>>,
                             <<>>, <<>>)
          ELSE agent_call' = AgentCall("_fallback_processing", <<>>, <<>>, <<>>, <<>>)
    /\ UNCHANGED <<nlp, sentence_model, utterance, similarity, core_call, agent>>
    /\ UNCHANGED manager_vars

\* _process_natural_language(utterance), where spaCy reads the utterance as
\* `doc`, up to the point where it returns or waits in subprocess.run.
\* Without an initialized AI it falls back to the keywords.  Otherwise
\* understand_input runs (an exception of encode() is caught at line 163 and
\* ends the handler); below confidence 0.3 get_suggestions(user_input, 3)
\* runs, with its own call of encode(), and nothing is executed; from 0.3 on
\* the command is built and started: no turn is recorded yet.
_process_natural_language(doc) ==
    IF ~agent.initialized \/ ~agent.ai_core
    THEN _fallback_processing(utterance)
    ELSE /\ UNCHANGED <<nlp, sentence_model, utterance, similarity, agent>>
         /\ UNCHANGED manager_vars
         /\ \/ /\ sentence_model
               /\ core_call' = CoreCall("understand_input", <<>>, TRUE, TRUE, <<>>)
               /\ agent_call' = AgentCall("_process_natural_language", <<>>, <<>>, <<>>, <<>>)
            \/ \E intent \in {understand_input_result(utterance, nlp, doc, sentence_model,
                                                       similarity)} :
                  IF greater(Fraction(3, 10), intent.confidence)
                  THEN /\ \/ /\ sentence_model
                             /\ core_call' = CoreCall("get_suggestions", <<3>>, TRUE, TRUE, <<>>)
                          \/ core_call' =
                                 CoreCall("get_suggestions", <<3>>, FALSE, FALSE,
                                          <<get_suggestions_result(utterance, <<3>>,
                                                                   sentence_model, similarity)>>)
                       /\ agent_call' = AgentCall("_process_natural_language", <<intent>>, <<>>,
                                                  <<>>, <<>>)
                  ELSE /\ core_call' = CoreCall("understand_input", <<>>, FALSE, FALSE,
                                                <<intent>>)
                       /\ agent_call' = AgentCall("_process_natural_language", <<intent>>,
                                                  <<sarah_cmd(intent)>>, <<>>, <<>>)

\* subprocess.run ends the wait of the handler that started the command.  An
\* interrupt leaves do_activate as KeyboardInterrupt: nothing more happens.
\* In _fallback_processing the outcome is only printed.  In
\* _process_natural_language _execute_plugin returns and add_turn records the
\* turn, with the clock as it reads now.
command_ends ==
    /\ agent_call.command # <<>> /\ agent_call.run = <<>>
    /\ UNCHANGED <<nlp, sentence_model, utterance, similarity, core_call, agent>>
    /\ \E run \in Runs :
          IF agent_call.op = "_fallback_processing" \/ run.raised = "KeyboardInterrupt"
          THEN /\ agent_call' = [agent_call EXCEPT !.run = <<run>>]
               /\ UNCHANGED manager_vars
          ELSE LET success == _execute_plugin(run)
               IN  /\ agent_call' = [agent_call EXCEPT !.run = <<run>>, !.success = <<success>>]
                   /\ IF agent.conversation_manager
                      THEN /\ add_turn_state(agent_turn(utterance, agent_call.intent[1], success),
                                             clock, 0, 0, 0)
                           /\ clock' = clock
                           /\ returned' = <<>>
                      ELSE UNCHANGED manager_vars

\* What the user types to the agent: keywords of one plugin, words too short
\* for search terms, and no keyword at all.
AgentUtterances == {"Weather rain", "la us", "xyz"}

\* What spaCy makes of the text for the agent: no entity, or the first word
\* read as a place (GPE or LOC) or as a person, or the first two words read as
\* two places.
AgentDocs(text) ==
    LET words == split(text)
        tokens == [i \in DOMAIN words |-> [text |-> words[i], is_stop |-> FALSE, is_punct |-> FALSE]]
        ent(label, i) == [label_ |-> label, text |-> words[i]]
    IN  {[ents |-> ents, tokens |-> tokens] :
            ents \in {<<>>} \cup (IF Len(words) >= 2
                                 THEN {<<ent("GPE", 1)>>, <<ent("LOC", 1)>>, <<ent("PERSON", 1)>>,
                                       <<ent("GPE", 1), ent("LOC", 2)>>}
                                 ELSE {})}

\* The similarities the sentence model gives the utterance: one plugin stands
\* out with 0.5, or none does.
AgentSimilarities ==
    {[name \in PluginNames |-> IF name = best THEN Fraction(1, 2) ELSE ZeroConfidence] :
        best \in {"weather", "adhan", "whois", "none"}}

\* do_activate(args) with an utterance that is no special command; up to
\* MaxCommands of the utterances are recorded as turns.
ProcessNaturalLanguage ==
    /\ agent_call.op # "__init__"
    /\ ~(agent_call.command # <<>> /\ agent_call.run = <<>>)
    /\ Len(added_turns) < MaxCommands
    /\ calls < MaxCalls
    /\ \E doc \in (IF nlp /\ agent.ai_core THEN AgentDocs(_clean_input(utterance)) ELSE {NoDoc}) :
          _process_natural_language(doc)

\* _initialize_ai, called by __init__: create_ai_core raises and the agent
\* stays uninitialized, without core and manager; or the core and the manager
\* are created, a conversation is started and the agent is initialized.
_initialize_ai ==
    /\ agent_call.op = "__init__"
    /\ agent_call' = AgentCall("_initialize_ai", <<>>, <<>>, <<>>, <<>>)
    /\ UNCHANGED <<nlp, sentence_model, utterance, similarity, core_call>>
    /\ \/ /\ agent' = [ai_core |-> FALSE, conversation_manager |-> FALSE, initialized |-> FALSE]
          /\ UNCHANGED manager_vars
       \/ /\ agent' = [ai_core |-> TRUE, conversation_manager |-> TRUE, initialized |-> TRUE]
          /\ \E id_elapsed \in 0..1, elapsed \in 0..1, greeting \in greeting_responses :
                start_conversation(<<>>, id_elapsed, elapsed, greeting)

\* do_deactivate, called while no handler is running: the history of the
\* manager, when there is one, is saved.
do_deactivate ==
    /\ agent_call.op # "__init__"
    /\ ~(agent_call.command # <<>> /\ agent_call.run = <<>>)
    /\ agent.conversation_manager
    /\ SaveConversationHistory

\* The agent under construction: create_conversation_manager() gives its
\* manager the default max_context_turns and a session timeout of 30 minutes;
\* whether the models of the core load, what the user types and what the
\* sentence model makes of it are fixed from the start.
AgentInit ==
    /\ max_context_turns = DefaultMaxContextTurns
    /\ session_timeout = 30 * TicksPerMinute
    /\ ManagerConstructed
    /\ nlp \in BOOLEAN
    /\ sentence_model \in BOOLEAN
    /\ utterance \in AgentUtterances
    /\ similarity \in (IF sentence_model THEN AgentSimilarities ELSE {<<>>})
    /\ core_call = NoCoreCall
    /\ agent_call = NoAgentCall
    /\ agent = NoAgent

AgentNext ==
    \/ _initialize_ai
    \/ ProcessNaturalLanguage
    \/ command_ends
    \/ do_deactivate
    \/ Tick

AgentSpec == AgentInit /\ [][AgentNext]_vars

\* The loop of the module demo and of the agent's backup version: add_turn
\* with an utterance, then get_contextual_response with the same utterance,
\* plugin and response, which reads the clock answer_elapsed after add_turn
\* read it last.
answer_turn(in, id_elapsed, elapsed, turn_elapsed, answer_elapsed) ==
    /\ clock + id_elapsed + elapsed + turn_elapsed + answer_elapsed <= MaxClock
    /\ add_turn_state(in, clock, id_elapsed, elapsed, turn_elapsed)
    /\ clock' = clock + id_elapsed + elapsed + turn_elapsed + answer_elapsed
    /\ \E result \in contextual_responses(current_context', in.user_input, in.intent_plugin,
                                          in.sarah_response, clock') :
          returned' = <<[op |-> "get_contextual_response", user_input |-> in.user_input,
                         intent_plugin |-> in.intent_plugin,
                         base_response |-> in.sarah_response, now |-> clock',
                         result |-> result]>>
    /\ UNCHANGED core_vars

\* What the user says in the loop: no greeting, farewell or follow-up word
\* (twice), and a greeting.
AnsweredUtterances == {"weather", "xyz", "Hello"}

AnswerTurn ==
    /\ Len(added_turns) < MaxUtterances
    /\ \E in \in TurnInputs, user_input \in AnsweredUtterances, id_elapsed \in 0..1,
          elapsed \in 0..1, turn_elapsed \in 0..1, answer_elapsed \in 0..1 :
           answer_turn([in EXCEPT !.user_input = user_input], id_elapsed, elapsed, turn_elapsed,
                       answer_elapsed)

AnswerNext ==
    \/ StartConversation
    \/ AnswerTurn

AnswerSpec == Init /\ [][AnswerNext]_vars

\* ------------------------------------------------------------------ claims
HasContext == current_context # <<>>
Current == current_context[1]

\* This step is a call of the manager, not the passing of time.
IsCall == calls' = calls + 1

\* This step ran start_conversation, by itself or at the head of add_turn.
StartedStep == IsCall /\ last_call'.started

\* C1: after start_conversation and max_context_turns + k add_turn calls
\* (k >= 1), the current turns are exactly the max_context_turns turns added
\* last, oldest first.
C1_TurnsAreTheMostRecent ==
    (HasContext /\ Len(added_turns) > max_context_turns) =>
        Current.turns = SubSeq(added_turns, Len(added_turns) - max_context_turns + 1,
                               Len(added_turns))

\* C2: for every configured max_context_turns >= 0, the current context never
\* holds more than max_context_turns turns.
C2_TurnsWithinMax ==
    HasContext => Len(Current.turns) <= max_context_turns

\* C3: a load_conversation_history that fails leaves conversation_history and
\* current_context as they were before the call.
C3_FailedLoadKeepsState ==
    [][(IsCall /\ last_call'.op = "load_conversation_history" /\ ~last_call'.ok) =>
          (conversation_history' = conversation_history /\ current_context' = current_context)]_vars

\* C4: a save_conversation_history that fails leaves the file with the complete
\* content it had before the call.
C4_FailedSaveKeepsFile ==
    [][(IsCall /\ last_call'.op = "save_conversation_history" /\ ~last_call'.ok
           /\ file.kind = "json") => file' = file]_vars

\* Two histories hold the same sessions: the same ids and, per id, equal
\* timestamps, topic, location, preferences and turns in the same order.
SameSessions(h1, h2) ==
    /\ dict_keys(h1) = dict_keys(h2)
    /\ \A sid \in dict_keys(h1) :
          LET a == dict_get(h1, sid)
              b == dict_get(h2, sid)
          IN  /\ a.session_id = b.session_id
              /\ a.started_at = b.started_at
              /\ a.last_interaction = b.last_interaction
              /\ a.active_topic = b.active_topic
              /\ a.location_context = b.location_context
              /\ a.user_preferences = b.user_preferences
              /\ a.turns = b.turns

\* C5: a fresh manager that loads the file written by a successful
\* save_conversation_history holds every session of the saved history, each
\* with equal fields and the same turns in the same order.
C5_SaveLoadRoundTrip ==
    (last_call.op = "load_into_fresh_manager" /\ saved # <<>>) =>
        (last_call.ok /\ SameSessions(fresh_history, saved[1]))

C5_Witness ==
    /\ last_call.op = "load_into_fresh_manager"
    /\ saved # <<>>
    /\ Len(saved[1]) >= 2
    /\ \E i \in DOMAIN saved[1] : saved[1][i].value.turns # <<>>
    /\ \E i \in DOMAIN saved[1] : saved[1][i].value.started_at % TicksPerSecond # 0

\* C6: a context of the history whose last_interaction is older than the
\* session timeout when start_conversation is called is no longer in the
\* history when the call returns.
C6_ExpiredSessionsEvicted ==
    [][StartedStep =>
          \A i \in DOMAIN conversation_history :
              (clock - conversation_history[i].value.last_interaction > session_timeout) =>
                  ~(\E j \in DOMAIN conversation_history' :
                        conversation_history'[j] = conversation_history[i])]_vars

C6_Witness ==
    /\ last_call.started
    /\ last_call.expired # {}
    /\ session_timeout > 0
    /\ conversation_history # <<>>

\* C7: when start_conversation returns, for every session timeout >= 0, the
\* new context (no turns, last_interaction = started_at) is the current one
\* and the history maps its session id to it.
C7_StartedContextIsStored ==
    last_call.op = "start_conversation" =>
        /\ HasContext
        /\ Current.turns = <<>>
        /\ Current.last_interaction = Current.started_at
        /\ current_in_history
        /\ Current.session_id \in dict_keys(conversation_history)
        /\ dict_get(conversation_history, Current.session_id) = Current

\* C8: the session id start_conversation generates when none is given differs
\* from every id already in the history, so the call replaces no stored session.
C8_GeneratedIdIsUnique ==
    [][(StartedStep /\ ~last_call'.given) =>
          current_context'[1].session_id \notin dict_keys(conversation_history)]_vars

\* C9: a stored session disappears from the history, or is replaced by another
\* context, only in a start_conversation whose cleanup finds it timed out.
C9_OnlyCleanupRemovesSessions ==
    [][\A i \in DOMAIN conversation_history :
          LET item == conversation_history[i]
              gone == item.key \notin dict_keys(conversation_history')
              same_object == /\ last_call'.op = "add_turn"
                             /\ ~last_call'.started
                             /\ current_in_history
                             /\ Current.session_id = item.key
              replaced == /\ item.key \in dict_keys(conversation_history')
                          /\ dict_get(conversation_history', item.key) # item.value
                          /\ ~same_object
          IN  (gone \/ replaced) =>
                  /\ StartedStep
                  /\ clock' - item.value.last_interaction > session_timeout]_vars

\* C10: under a clock that never goes back, last_interaction >= started_at in
\* every context; an add_turn sets last_interaction to the timestamp of the
\* turn it adds and never decreases it.
C10_LastInteraction ==
    /\ [](/\ HasContext => Current.last_interaction >= Current.started_at
          /\ \A i \in DOMAIN conversation_history :
                conversation_history[i].value.last_interaction >=
                    conversation_history[i].value.started_at)
    /\ [][(IsCall /\ last_call'.op = "add_turn") =>
             /\ current_context'[1].last_interaction =
                    added_turns'[Len(added_turns')].timestamp
             /\ HasContext => current_context'[1].last_interaction >= Current.last_interaction]_vars

C10_Witness ==
    /\ last_call.op = "add_turn"
    /\ Len(added_turns) >= 2
    /\ Current.last_interaction > Current.started_at
    /\ added_turns[1].timestamp < added_turns[2].timestamp

\* --------------------------------------------------- claims on the AI core
Understood == core_call.op = "understand_input" /\ ~core_call.raised
Suggested == core_call.op = "get_suggestions" /\ ~core_call.raised
CoreResult == core_call.result[1]

\* The utterance is empty or made of whitespace only.
BlankUtterance == strip(utterance) = ""

\* Plugin number i of the catalog has the largest value of score, and is the
\* first plugin of the catalog that has it.
FirstMaximum(score(_), i) ==
    /\ \A j \in DOMAIN plugins_info : ~greater(score(j), score(i))
    /\ \A j \in 1..(i - 1) : greater(score(i), score(j))

CatalogIndex(name) == CHOOSE i \in DOMAIN plugins_info : plugins_info[i].name = name

\* C11: for every utterance, with and without the sentence model, the Intent
\* that understand_input returns names a plugin of the catalog and carries
\* the utterance as it was given in raw_text.  (A call in which encode()
\* raises returns no Intent; that call is the subject of C17.)
C11_IntentNamesCatalogPlugin ==
    Understood =>
        /\ CoreResult.plugin_name \in PluginNames
        /\ CoreResult.raw_text = utterance

C11_Witness ==
    /\ Understood
    /\ sentence_model
    /\ utterance # _clean_input(utterance)
    /\ CoreResult.plugin_name = "weather"

C11_WitnessKeyword ==
    /\ Understood
    /\ ~sentence_model
    /\ utterance # _clean_input(utterance)
    /\ CoreResult.plugin_name = "wiki"

\* C12: for an empty or whitespace-only utterance, with and without the
\* sentence model, understand_input returns plugin 'hi' with confidence 0.0
\* and no entities, and does not raise (checked for the calls in which
\* encode() does not fail).
C12_BlankUtteranceGivesDefault ==
    (core_call.op = "understand_input" /\ BlankUtterance /\ ~core_call.encode_failed) =>
        /\ ~core_call.raised
        /\ CoreResult.plugin_name = "hi"
        /\ same_value(CoreResult.confidence, ZeroConfidence)
        /\ CoreResult.entities = EmptyDict

\* C13: without the sentence model, understand_input returns the first plugin
\* in catalog order whose score (keywords that are substrings of the cleaned
\* utterance, divided by the number of keywords) is maximal, with that score
\* as confidence, and 'hi' with 0.0 when no plugin scores above 0; so an
\* utterance with every keyword of one plugin and no keyword of another
\* gives that plugin with confidence 1.0.
C13_KeywordMatchIsFirstMaximum ==
    (Understood /\ ~sentence_model) =>
        LET text == _clean_input(utterance)
            score(i) == keyword_score(plugins_info[i], text)
            has_all(i) == \A k \in DOMAIN plugins_info[i].keywords :
                              contains(text, plugins_info[i].keywords[k])
            has_none(i) == \A k \in DOMAIN plugins_info[i].keywords :
                              ~contains(text, plugins_info[i].keywords[k])
        IN  /\ IF \A i \in DOMAIN plugins_info : ~greater(score(i), ZeroConfidence)
               THEN /\ CoreResult.plugin_name = "hi"
                    /\ same_value(CoreResult.confidence, ZeroConfidence)
               ELSE \E i \in DOMAIN plugins_info :
                       /\ FirstMaximum(score, i)
                       /\ CoreResult.plugin_name = plugins_info[i].name
                       /\ same_value(CoreResult.confidence, score(i))
            /\ \A i \in DOMAIN plugins_info :
                  (has_all(i) /\ \A j \in DOMAIN plugins_info \ {i} : has_none(j)) =>
                      /\ CoreResult.plugin_name = plugins_info[i].name
                      /\ same_value(CoreResult.confidence, Fraction(1, 1))

\* Two plugins share the largest score and the first of them is returned.
C13_Witness ==
    /\ Understood
    /\ ~sentence_model
    /\ CoreResult.plugin_name = "wiki"
    /\ same_value(keyword_score(plugins_info[CatalogIndex("whois")], _clean_input(utterance)),
                  CoreResult.confidence)

\* Every keyword of one plugin and none of another: confidence 1.0.
C13_WitnessAllKeywords ==
    /\ Understood
    /\ ~sentence_model
    /\ CoreResult.plugin_name = "time"
    /\ same_value(CoreResult.confidence, Fraction(1, 1))

\* C14: with the sentence model, understand_input returns the plugin whose
\* cosine similarity is the maximum over the catalog (the first in catalog
\* order among equals), with that maximum as confidence, whatever the
\* similarities in [-1, 1] are, all zero or negative included.
C14_EmbeddingMatchIsFirstMaximum ==
    (Understood /\ sentence_model) =>
        LET score(i) == similarity[plugins_info[i].name]
        IN  \E i \in DOMAIN plugins_info :
               /\ FirstMaximum(score, i)
               /\ CoreResult.plugin_name = plugins_info[i].name
               /\ same_value(CoreResult.confidence, score(i))

\* C15: for every utterance and every limit >= 0, with and without the
\* sentence model, get_suggestions returns at most limit entries, by
\* non-increasing confidence, entries of equal confidence in catalog order.
C15_SuggestionsBoundedAndSorted ==
    (Suggested /\ core_call.max_suggestions # <<>>) =>
        /\ Len(CoreResult) <= core_call.max_suggestions[1]
        /\ \A i, j \in DOMAIN CoreResult :
              i < j =>
                 /\ ~greater(CoreResult[j].confidence, CoreResult[i].confidence)
                 /\ same_value(CoreResult[i].confidence, CoreResult[j].confidence)
                       => CatalogIndex(CoreResult[i].plugin) < CatalogIndex(CoreResult[j].plugin)

\* C16: for every utterance and every limit >= 1, with and without the
\* sentence model, the first entry of get_suggestions has the plugin and the
\* confidence of the Intent understand_input returns for the same utterance.
C16_FirstSuggestionIsTheIntent ==
    (Suggested /\ core_call.max_suggestions # <<>> /\ core_call.max_suggestions[1] >= 1) =>
        LET intent == understand_input_result(utterance, nlp, NoDoc, sentence_model, similarity)
        IN  /\ Len(CoreResult) >= 1
            /\ CoreResult[1].plugin = intent.plugin_name
            /\ same_value(CoreResult[1].confidence, intent.confidence)

\* C17: when the sentence model is loaded and encode() fails in a call of
\* understand_input, the call does not raise and returns the Intent of the
\* keyword scoring.
C17_EncodeFailureFallsBackToKeywords ==
    (core_call.op = "understand_input" /\ core_call.encode_failed) =>
        /\ ~core_call.raised
        /\ core_call.result # <<>>
        /\ LET match == _keyword_based_matching(_clean_input(utterance))
           IN  /\ CoreResult.plugin_name = match.plugin
               /\ same_value(CoreResult.confidence, match.confidence)

\* ---------------------------------------------- claims on the responses
Responded == returned # <<>> /\ returned[1].op = "get_contextual_response"
Response == returned[1]

\* The three kinds of answer, and the hints, as texts.
GreetingTexts == greeting_responses \cup {"Welcome back! What else can I help you with?"}
FarewellTexts ==
    farewell_responses \cup {f \o " It was great helping you today!" : f \in farewell_responses}
AcknowledgedTexts(base_response) ==
    {a \o " Here's more information:\n" \o base_response : a \in acknowledgment_responses}
HasHint(text) ==
    contains(text, "(I remember you usually ask about ") \/
    contains(text, "(Related to our discussion about ")

IsGreeting == any_in_lower(greetings, Response.user_input)
IsFarewell == any_in_lower(farewells, Response.user_input)
HasFollowUpWord == any_in_lower(follow_up_words, Response.user_input)
IsFollowUp ==
    _is_follow_up_question(Current, Response.user_input, Response.intent_plugin, Response.now)

\* C18: with a current context, get_contextual_response answers an utterance
\* with a greeting phrase by a greeting, whatever else it contains; otherwise
\* one with a farewell phrase by a farewell, even when it is a follow-up;
\* otherwise a follow-up by the acknowledged base response; and appends
\* context hints only when none of the three matched.
C18_ResponsePriority ==
    (Responded /\ HasContext) =>
        /\ IsGreeting => Response.result \in GreetingTexts
        /\ (~IsGreeting /\ IsFarewell) => Response.result \in FarewellTexts
        /\ (~IsGreeting /\ ~IsFarewell /\ IsFollowUp)
              => Response.result \in AcknowledgedTexts(Response.base_response)
        /\ (IsGreeting \/ IsFarewell \/ IsFollowUp) => ~HasHint(Response.result)
        /\ ~(IsGreeting \/ IsFarewell \/ IsFollowUp)
              => Response.result = _add_context_to_response(Current, Response.base_response,
                                                            Response.intent_plugin)

\* A greeting that is also a farewell and a follow-up is answered as a greeting.
C18_Witness ==
    /\ Responded /\ HasContext
    /\ IsGreeting /\ IsFarewell /\ IsFollowUp
    /\ Response.result \in GreetingTexts

\* A farewell that is also a follow-up is answered as a farewell.
C18_WitnessFarewell ==
    /\ Responded /\ HasContext
    /\ ~IsGreeting /\ IsFarewell /\ IsFollowUp
    /\ Response.result \in FarewellTexts

\* None of the three matched and a hint was appended.
C18_WitnessHint ==
    /\ Responded /\ HasContext
    /\ ~IsGreeting /\ ~IsFarewell /\ ~IsFollowUp
    /\ HasHint(Response.result)

\* C19 as stated: with a current context, an utterance that is neither a
\* greeting nor a farewell and contains a follow-up word gets the base
\* response behind an acknowledgment, whatever the number of turns, zero
\* included.
C19_FollowUpWordAcknowledged ==
    (Responded /\ HasContext /\ ~IsGreeting /\ ~IsFarewell /\ HasFollowUpWord) =>
        Response.result \in AcknowledgedTexts(Response.base_response)

\* C19 amended: with a current context that holds at least one turn, an
\* utterance that is neither a greeting nor a farewell and contains a
\* follow-up word gets the base response behind an acknowledgment.
C19_FollowUpWordAcknowledgedAfterATurn ==
    (Responded /\ HasContext /\ Current.turns # <<>>
        /\ ~IsGreeting /\ ~IsFarewell /\ HasFollowUpWord) =>
        Response.result \in AcknowledgedTexts(Response.base_response)

\* The follow-up word alone makes the follow-up: the plugin is not the one of
\* the last turn.
C19_Witness ==
    /\ Responded /\ HasContext /\ Current.turns # <<>>
    /\ ~IsGreeting /\ ~IsFarewell /\ HasFollowUpWord
    /\ Response.intent_plugin # Current.turns[Len(Current.turns)].intent_plugin
    /\ Response.result \in AcknowledgedTexts(Response.base_response)

\* ------------------------------------------------ claims on the summary
Summarized == returned # <<>> /\ returned[1].op = "get_conversation_summary"
Summary == returned[1].result

\* C20: with a current context, recent_plugins of get_conversation_summary is
\* the plugins of the last 5 retained turns, each once, in the order of their
\* first occurrence among those turns (after start_conversation and one
\* add_turn with 'hi': ['hi'], and total_turns 1); without a current context
\* the summary is only the status 'no_active_conversation'.
C20_SummaryRecentPlugins ==
    Summarized =>
        IF HasContext
        THEN LET turns == Current.turns
                 first == IF Len(turns) > 5 THEN Len(turns) - 4 ELSE 1
                 recent == first..Len(turns)
                 first_seen(plugin) ==
                     CHOOSE i \in recent : /\ turns[i].intent_plugin = plugin
                                           /\ \A j \in first..(i - 1) : turns[j].intent_plugin # plugin
                 plugins == Summary.recent_plugins
             IN  /\ {plugins[i] : i \in DOMAIN plugins} = {turns[i].intent_plugin : i \in recent}
                 /\ \A i, j \in DOMAIN plugins :
                       i < j => first_seen(plugins[i]) < first_seen(plugins[j])
                 /\ (Len(added_turns) = 1 /\ added_turns[1].intent_plugin = "hi") =>
                       (plugins = <<"hi">> /\ Summary.total_turns = 1)
        ELSE Summary = [status |-> "no_active_conversation"]

\* Six turns are retained, the plugin of the oldest is used in no later turn,
\* and the summary leaves it out.
C20_Witness ==
    /\ Summarized /\ HasContext
    /\ Len(Current.turns) = 6
    /\ \A i \in 2..6 : Current.turns[i].intent_plugin # Current.turns[1].intent_plugin
    /\ Len(Summary.recent_plugins) = 2
    /\ Summary.recent_plugins[1] # Summary.recent_plugins[2]

\* The summary after start_conversation and one add_turn with 'hi'.
C20_WitnessOneTurn ==
    /\ Summarized /\ HasContext
    /\ Len(added_turns) = 1 /\ added_turns[1].intent_plugin = "hi"
    /\ Summary.recent_plugins = <<"hi">>

\* The summary without a current context.
C20_WitnessNoContext ==
    Summarized /\ ~HasContext /\ Summary.status = "no_active_conversation"

\* C21: the total_turns of a summary is the number of turns added to the
\* current session since it was started, also after more than
\* max_context_turns add_turn calls.
C21_TotalTurnsCountsAddedTurns ==
    (Summarized /\ HasContext) => Summary.total_turns = Len(added_turns)

\* ------------------------------------------------- claims on the agent
\* The agent built and started a command for the utterance it processed last.
Executed == agent_call.op = "_process_natural_language" /\ agent_call.command # <<>>
\* The command has ended and _execute_plugin returned: the turn is recorded.
Recorded == Executed /\ agent_call.success # <<>>
AgentIntent == agent_call.intent[1]
PluginArgs == SubSeq(agent_call.command[1], 3, Len(agent_call.command[1]))
AgentRun == agent_call.run[1]

\* C26: the arguments built from an Intent are exactly its search terms when
\* it has search_terms; only without them the gpe entity (or, without gpe,
\* the loc entity) for weather and adhan, and the person entity for whois;
\* no place or person is appended after search terms.
C26_ArgumentPriority ==
    Executed =>
        LET entities == AgentIntent.entities
            located == AgentIntent.plugin_name \in {"weather", "adhan"}
        IN  PluginArgs =
                IF "search_terms" \in DOMAIN entities THEN entities.search_terms
                ELSE IF located /\ "gpe" \in DOMAIN entities THEN <<entities.gpe>>
                ELSE IF located /\ "loc" \in DOMAIN entities THEN <<entities.loc>>
                ELSE IF AgentIntent.plugin_name = "whois" /\ "person" \in DOMAIN entities
                THEN <<entities.person>>
                ELSE <<>>

\* C27: the turn the agent passes to add_turn has execution_successful = true
\* only when the command returned exit status 0 and an empty stderr; a
\* non-zero status, a non-empty stderr, a timeout and an exception while
\* spawning each give execution_successful = false.
C27_SuccessOnlyOnCleanExit ==
    Recorded =>
        (added_turns[Len(added_turns)].execution_successful <=>
            /\ AgentRun.raised = "None"
            /\ AgentRun.result[1].returncode = 0
            /\ AgentRun.result[1].stderr = "")

\* The utterance answered last was added as a turn just before, and no turn
\* of its session, or only a turn with another plugin, came before it.
AnsweredOwnTurn ==
    /\ Responded /\ HasContext
    /\ last_call.op = "add_turn"
    /\ added_turns # <<>>
    /\ added_turns[Len(added_turns)].user_input = Response.user_input
    /\ added_turns[Len(added_turns)].intent_plugin = Response.intent_plugin
FirstOrOtherPlugin ==
    \/ Len(added_turns) = 1
    \/ added_turns[Len(added_turns) - 1].intent_plugin # Response.intent_plugin

\* C22: in the sequence add_turn(u, a, ...) then get_contextual_response(u,
\* a, ...), an utterance that is the first of its session, or whose plugin
\* is not the one of the utterance before it, and that holds no greeting,
\* farewell or follow-up word, is not treated as a follow-up: it gets the
\* base response with the hints that apply and no acknowledgment.
C22_FollowUpComparesWithPrecedingTurn ==
    (AnsweredOwnTurn /\ FirstOrOtherPlugin /\ ~IsGreeting /\ ~IsFarewell /\ ~HasFollowUpWord) =>
        /\ Response.result \notin AcknowledgedTexts(Response.base_response)
        /\ Response.result = _add_context_to_response(Current, Response.base_response,
                                                      Response.intent_plugin)

\* The text begins with the prefix.
StartsWith(text, prefix) ==
    Len(text) >= Len(prefix) /\ \A i \in 1..Len(prefix) : char_at(text, i) = char_at(prefix, i)
OccursIn(text, base_response) == contains(lower(base_response), lower(text))
LocationHint(location) == "\n(I remember you usually ask about " \o location \o ")"
TopicHint(topic) == "\n(Related to our discussion about " \o topic \o ")"

\* C23: for an utterance that is neither greeting, farewell nor follow-up:
\* with plugin 'weather' and a stored location_context that does not occur in
\* base_response (whatever the case of the letters), the answer is
\* base_response followed by the remembered-location hint; with a plugin of
\* wiki, google, youtube, github and a stored active_topic that does not occur
\* in base_response (likewise), it is base_response followed by the
\* related-topic hint; in every other case it is base_response; and it always
\* starts with base_response.
C23_HintsAppended ==
    (Responded /\ HasContext /\ ~IsGreeting /\ ~IsFarewell /\ ~IsFollowUp) =>
        LET base_response == Response.base_response
            location == Current.location_context
            topic == Current.active_topic
        IN  /\ Response.result =
                  IF /\ Response.intent_plugin = "weather"
                     /\ truthy(location) /\ ~OccursIn(location, base_response)
                  THEN base_response \o LocationHint(location)
                  ELSE IF /\ Response.intent_plugin \in {"wiki", "google", "youtube", "github"}
                          /\ truthy(topic) /\ ~OccursIn(topic, base_response)
                  THEN base_response \o TopicHint(topic)
                  ELSE base_response
            /\ StartsWith(Response.result, base_response)

NoFollowUp == Responded /\ HasContext /\ ~IsGreeting /\ ~IsFarewell /\ ~IsFollowUp

\* The remembered location is appended to a weather answer that does not name it.
C23_Witness ==
    /\ NoFollowUp
    /\ Response.intent_plugin = "weather"
    /\ Current.location_context = "Paris"
    /\ Response.result = Response.base_response \o LocationHint("Paris")

\* The location occurs in the answer in other letters: no hint.
C23_WitnessLocationNamed ==
    /\ NoFollowUp
    /\ Response.intent_plugin = "weather"
    /\ Current.location_context = "Paris"
    /\ Response.base_response = "Sunny in PARIS"
    /\ Response.result = Response.base_response

\* The topic is appended to a wiki answer that does not name it.
C23_WitnessTopic ==
    /\ NoFollowUp
    /\ Response.intent_plugin = "wiki"
    /\ Current.active_topic = "cats"
    /\ Response.result = Response.base_response \o TopicHint("cats")

\* The topic occurs in the answer in other letters: no hint.
C23_WitnessTopicNamed ==
    /\ NoFollowUp
    /\ Response.intent_plugin = "wiki"
    /\ Current.active_topic = "cats"
    /\ Response.base_response = "All about Cats"
    /\ Response.result = Response.base_response

\* A stored location does not show in a wiki answer.
C23_WitnessOtherPlugin ==
    /\ NoFollowUp
    /\ Response.intent_plugin = "wiki"
    /\ truthy(Current.location_context) /\ ~truthy(Current.active_topic)
    /\ Response.result = Response.base_response

\* ------------------------------------------------- claims on the context
\* This step is an add_turn; the turn it added; the topic before it (None in
\* the session add_turn starts by itself).
AddedStep == IsCall /\ last_call'.op = "add_turn"
AddedTurn == added_turns'[Len(added_turns')]
TopicBefore == IF last_call'.started THEN NoneStr ELSE Current.active_topic

\* C24: after add_turn, active_topic is the first up to 3 search_terms joined
\* by single spaces when entities has a non-empty search_terms list;
\* otherwise the plugin name when the plugin is weather, time or speedtest;
\* otherwise it is what it was.  A later add_turn that sets a topic
\* overwrites the earlier one.
C24_ActiveTopic ==
    [][AddedStep =>
          LET entities == AddedTurn.entities
              terms == entities.search_terms
          IN  current_context'[1].active_topic =
                  IF "search_terms" \in DOMAIN entities /\ terms # <<>>
                  THEN IF Len(terms) = 1 THEN terms[1]
                       ELSE IF Len(terms) = 2 THEN terms[1] \o " " \o terms[2]
                       ELSE terms[1] \o " " \o terms[2] \o " " \o terms[3]
                  ELSE IF AddedTurn.intent_plugin \in {"weather", "time", "speedtest"}
                  THEN AddedTurn.intent_plugin
                  ELSE TopicBefore]_vars

\* Four search terms came after a turn that had set the topic 'time': the
\* topic is the first three of them.
C24_Witness ==
    /\ last_call.op = "add_turn"
    /\ Len(added_turns) >= 2
    /\ added_turns[Len(added_turns) - 1].intent_plugin = "time"
    /\ "search_terms" \in DOMAIN added_turns[Len(added_turns)].entities
    /\ Len(added_turns[Len(added_turns)].entities.search_terms) = 4
    /\ Current.active_topic = "rain in paris"

\* A turn with an empty list of search terms and a plugin that is no topic
\* left the topic as it was.
C24_WitnessUnchanged ==
    /\ last_call.op = "add_turn"
    /\ Len(added_turns) >= 2
    /\ added_turns[Len(added_turns)].intent_plugin = "wiki"
    /\ "search_terms" \in DOMAIN added_turns[Len(added_turns)].entities
    /\ added_turns[Len(added_turns)].entities.search_terms = <<>>
    /\ Current.active_topic = "speedtest"

\* The counters of the current context, and the number of turns added with a
\* plugin since the session started.
PreferredPlugins ==
    IF "preferred_plugins" \in DOMAIN Current.user_preferences
    THEN Current.user_preferences.preferred_plugins ELSE EmptyDict
Counter(plugin) == IF plugin \in DOMAIN PreferredPlugins THEN PreferredPlugins[plugin] ELSE 0
AddedWith(plugin) ==
    Cardinality({i \in DOMAIN added_turns : added_turns[i].intent_plugin = plugin})

\* C25: in every state of a session, for each plugin the counter
\* user_preferences['preferred_plugins'][plugin] (0 when absent) is the number
\* of add_turn calls made with that plugin since the session started,
\* whatever was trimmed; so the counters add up to the number of add_turn
\* calls.
C25_PreferredPluginsCountTurns ==
    HasContext =>
        \A plugin \in DOMAIN PreferredPlugins
                      \cup {added_turns[i].intent_plugin : i \in DOMAIN added_turns} :
            Counter(plugin) = AddedWith(plugin)

\* Three turns were added, two of them with one plugin, and one was trimmed.
C25_Witness ==
    /\ HasContext
    /\ Len(added_turns) = 3 /\ Len(Current.turns) = 2
    /\ \E plugin \in DOMAIN PreferredPlugins : Counter(plugin) = 2
    /\ \E plugin \in DOMAIN PreferredPlugins : Counter(plugin) = 1

\* ------------------------------------------- claims on the formatted answer
Formatted == core_call.op = "format_response"
IntentConfidence ==
    _find_best_plugin_match(_clean_input(utterance), sentence_model, similarity).confidence

\* C28: with and without the sentence model, every entry get_suggestions
\* returns has a plugin name, a confidence and a description, and
\* format_response on an Intent whose confidence is below confidence_threshold
\* returns a text that lists the suggestions; it does not raise (a call in
\* which encode() raises is left aside here, it is the subject of C17).
C28_SuggestionsHaveDescriptions ==
    /\ Suggested =>
          \A i \in DOMAIN CoreResult :
              {"plugin", "confidence", "description"} \subseteq DOMAIN CoreResult[i]
    /\ (Formatted /\ ~core_call.encode_failed
            /\ greater(confidence_threshold, IntentConfidence)) =>
          /\ ~core_call.raised
          /\ core_call.result # <<>>
          /\ contains(CoreResult, "Did you mean:\n1. ")

\* C29: after any sequence of start_conversation, add_turn,
\* save_conversation_history and load_conversation_history, whenever there is
\* a current context the history maps its session_id to that very context,
\* so that the turns add_turn records are in what a later save writes.
C29_CurrentContextIsStored ==
    HasContext =>
        /\ current_in_history
        /\ Current.session_id \in dict_keys(conversation_history)
        /\ dict_get(conversation_history, Current.session_id) = Current

\* The sessions of the history other than the current one.
OtherSessions(history) ==
    SelectSeq(history, LAMBDA item : item.key # Current.session_id)

\* C30: get_contextual_response, get_conversation_summary and
\* save_conversation_history leave current_context (turns, last_interaction,
\* active_topic, location_context, user_preferences) and conversation_history
\* as they were; an add_turn on an existing current context leaves every
\* other session of the history as it was.
C30_ReadOnlyCalls ==
    [][/\ last_call'.op \in {"get_contextual_response", "get_conversation_summary",
                             "save_conversation_history"}
          => (current_context' = current_context /\ conversation_history' = conversation_history)
       /\ (AddedStep /\ HasContext)
          => OtherSessions(conversation_history') = OtherSessions(conversation_history)]_vars

\* A summary was made of a context of two turns, which are still there.
C30_Witness ==
    /\ Summarized /\ HasContext
    /\ last_call.op = "get_conversation_summary"
    /\ Len(Current.turns) = 2
    /\ current_in_history

\* An answer was given from a context with a turn.
C30_WitnessAnswer ==
    /\ Responded /\ HasContext
    /\ last_call.op = "get_contextual_response"
    /\ Current.turns # <<>>

\* The history was saved with the current context in it.
C30_WitnessSave ==
    /\ last_call.op = "save_conversation_history"
    /\ HasContext /\ current_in_history
    /\ Current.turns # <<>>

\* A turn was added while the history held another session.
C30_WitnessAddTurn ==
    /\ last_call.op = "add_turn" /\ ~last_call.started
    /\ HasContext /\ current_in_history
    /\ Len(conversation_history) = 2
====
